---- MODULE Spec2Model ----
(***************************************************************************)
(* Font synthesis of the icon crate: generate_font / generate_font_bytes   *)
(* (src/src/generator/font/ttf.rs), the outline pipeline                  *)
(* (src/src/generator/font/svg.rs) and glyphs_in_order                    *)
(* (src/src/utils/glyphs.rs).                                             *)
(*                                                                         *)
(* Text is a sequence of Unicode scalar values (integers); f64 values are  *)
(* exact rationals <<numerator, denominator>>; u16 counters keep their     *)
(* width (wrapping_add is addition modulo 2^16).                           *)
(***************************************************************************)
EXTENDS Integers, Sequences, FiniteSets, TLC

VARIABLES
    glyphs,          \* BTreeMap<Collection, Vec<PackIcon>> handed to generate_font
    glyphs0,         \* the glyph map as it was when generate_font was called
    pc,              \* position in generate_font: loop, tables, create, write, done, panic
    stage,           \* the stage of the loop body the run is at, or panicked in
    ordered_entries, \* Vec<(Collection, usize)> returned by glyphs_in_order
    pos,             \* 1-based index into ordered_entries of the glyph in progress
    next_codepoint,  \* u16
    next_gid,        \* u16
    codepoints,      \* Vec<(char, GlyphId)>
    gl,              \* glyphs added to the GlyfLocaBuilder
    parsed_svg,      \* ParsedSvg of the glyph in progress
    bytes,           \* tables of the font image returned by generate_font_bytes
    file,            \* the output file <module>.ttf in the file system
    file0,           \* the output file as it was when generate_font was called
    panic_msg,       \* the panic that ended the build, if any
    q_path,          \* bezpath_with_quadratics: the input path
    q_i,             \* bezpath_with_quadratics: 1-based index of the next element
    q_st,            \* bezpath_with_quadratics: out, subpath_start, current_point, flag
    q_pc,            \* bezpath_with_quadratics: off, run, done, panic
    call_fn,         \* a function called on its own: its name
    call_in,         \* its arguments, as a record
    call_out,        \* what it returned, or its panic, as a record
    call_pc          \* off, call, return, panic

vars ==
    <<glyphs, glyphs0, pc, stage, ordered_entries, pos, next_codepoint, next_gid,
      codepoints, gl, parsed_svg, bytes, file, file0, panic_msg,
      q_path, q_i, q_st, q_pc, call_fn, call_in, call_out, call_pc>>

font_vars ==
    <<glyphs, glyphs0, pc, stage, ordered_entries, pos, next_codepoint, next_gid,
      codepoints, gl, parsed_svg, bytes, file, file0, panic_msg>>

quad_vars == <<q_path, q_i, q_st, q_pc>>

call_vars == <<call_fn, call_in, call_out, call_pc>>

\* No function is called on its own
CallOff ==
    /\ call_fn = "none"
    /\ call_in = [none |-> TRUE]
    /\ call_out = [none |-> TRUE]
    /\ call_pc = "off"

-----------------------------------------------------------------------------
(* Bounds of the model. *)

MaxGlyphs == 2

MaxPathLen == 3

-----------------------------------------------------------------------------
(* Program constants. *)

U16 == 65536

PUA_FIRST == 57344

PUA_LAST == 63743

FIRST_GID == 1

UNITS_PER_EM == 1000

ADVANCE_WIDTH == 1000

SURROGATE_FIRST == 55296

SURROGATE_LAST == 57343

-----------------------------------------------------------------------------
(* Exact rational arithmetic standing for f64. *)

Abs(i) == IF i < 0 THEN -i ELSE i

RECURSIVE Gcd(_, _)
Gcd(a, b) == IF b = 0 THEN a ELSE Gcd(b, a % b)

Rat(n, d) ==
    LET s == IF d < 0 THEN -1 ELSE 1
        g == Gcd(Abs(n), Abs(d))
    IN <<(s * n) \div g, (s * d) \div g>>

RInt(i) == <<i, 1>>

RAdd(a, b) == Rat(a[1] * b[2] + b[1] * a[2], a[2] * b[2])

RSub(a, b) == Rat(a[1] * b[2] - b[1] * a[2], a[2] * b[2])

RMul(a, b) == Rat(a[1] * b[1], a[2] * b[2])

RDiv(a, b) == Rat(a[1] * b[2], a[2] * b[1])

RNeg(a) == <<-a[1], a[2]>>

RLt(a, b) == a[1] * b[2] < b[1] * a[2]

RLe(a, b) == a[1] * b[2] <= b[1] * a[2]

RMin(a, b) == IF RLe(a, b) THEN a ELSE b

R0 == RInt(0)

Pt(x, y) == [x |-> x, y |-> y]

IPt(x, y) == Pt(RInt(x), RInt(y))

\* Point::ZERO
POINT_ZERO == IPt(0, 0)

-----------------------------------------------------------------------------
(* Text. *)

\* char::is_whitespace: the Unicode White_Space property
IsWhitespace(c) ==
    \/ c \in 9..13
    \/ c \in {32, 133, 160, 5760, 8232, 8233, 8239, 8287, 12288}
    \/ c \in 8192..8202

SetMin(S) == CHOOSE m \in S : \A o \in S : m <= o

SetMax(S) == CHOOSE m \in S : \A o \in S : o <= m

\* str::trim
Trim(s) ==
    LET keep == {i \in 1..Len(s) : ~IsWhitespace(s[i])}
    IN IF keep = {} THEN <<>> ELSE SubSeq(s, SetMin(keep), SetMax(keep))

\* str::trim_start
TrimStart(s) ==
    LET keep == {i \in 1..Len(s) : ~IsWhitespace(s[i])}
    IN IF keep = {} THEN <<>> ELSE SubSeq(s, SetMin(keep), Len(s))

\* str::contains(char)
Contains(s, c) == \E i \in 1..Len(s) : s[i] = c

\* str::starts_with
StartsWith(s, p) == Len(p) <= Len(s) /\ SubSeq(s, 1, Len(p)) = p

\* str::find(&str): the 1-based index of the first match, 0 when there is none
Find(s, p) ==
    LET hits == {i \in 1..(Len(s) - Len(p) + 1) : SubSeq(s, i, i + Len(p) - 1) = p}
    IN IF hits = {} THEN 0 ELSE SetMin(hits)

\* "<svg xmlns="http://www.w3.org/2000/svg" viewBox="0 0 24 24">"
SVG_OPEN ==
    <<60, 115, 118, 103, 32, 120, 109, 108, 110, 115, 61, 34, 104, 116, 116,
      112, 58, 47, 47, 119, 119, 119, 46, 119, 51, 46, 111, 114, 103, 47, 50,
      48, 48, 48, 47, 115, 118, 103, 34, 32, 118, 105, 101, 119, 66, 111,
      120, 61, 34, 48, 32, 48, 32, 50, 52, 32, 50, 52, 34, 62>>

\* "<path d=""
PATH_OPEN ==
    <<60, 112, 97, 116, 104, 32, 100, 61, 34>>

\* ""/>"
PATH_CLOSE ==
    <<34, 47, 62>>

\* "</svg>"
SVG_CLOSE ==
    <<60, 47, 115, 118, 103, 62>>

\* The starts of a whole document: "<svg", "<?xml", "<!DOCTYPE"
ROOT_PREFIXES ==
    {<<60, 115, 118, 103>>,
     <<60, 63, 120, 109, 108>>,
     <<60, 33, 68, 79, 67, 84, 89, 80, 69>>}

\* "viewBox="
VIEWBOX_ATTR ==
    <<118, 105, 101, 119, 66, 111, 120, 61>>

\* The glyph sources of the model: a blank text, bare path data with lines and with
\* a cubic, a fragment without a path, a broken document, a whole document, a
\* document without a view box and without a path
IconText ==
    [spaces |->    \* "  "
        <<32, 32>>,
     triangle |->    \* "M0 0 L24 0 L24 24 Z"
        <<77, 48, 32, 48, 32, 76, 50, 52, 32, 48, 32, 76, 50, 52, 32, 50, 52, 32, 90>>,
     cubic |->    \* "M0 0 C0 24 24 24 24 0 Z"
        <<77, 48, 32, 48, 32, 67, 48, 32, 50, 52, 32, 50, 52, 32, 50, 52, 32, 50, 52,
          32, 48, 32, 90>>,
     fragment |->    \* "<g/>"
        <<60, 103, 47, 62>>,
     broken |->    \* "<svg"
        <<60, 115, 118, 103>>,
     document |->    \* "<svg xmlns="http://www.w3.org/2000/svg" viewBox="0 0 48 48"><path d="M0 0 L48 0 L48 48 Z"/></svg>"
        <<60, 115, 118, 103, 32, 120, 109, 108, 110, 115, 61, 34, 104, 116, 116, 112,
          58, 47, 47, 119, 119, 119, 46, 119, 51, 46, 111, 114, 103, 47, 50, 48, 48,
          48, 47, 115, 118, 103, 34, 32, 118, 105, 101, 119, 66, 111, 120, 61, 34,
          48, 32, 48, 32, 52, 56, 32, 52, 56, 34, 62, 60, 112, 97, 116, 104, 32, 100,
          61, 34, 77, 48, 32, 48, 32, 76, 52, 56, 32, 48, 32, 76, 52, 56, 32, 52, 56,
          32, 90, 34, 47, 62, 60, 47, 115, 118, 103, 62>>,
     hollow |->    \* "<svg xmlns="http://www.w3.org/2000/svg" width="24" height="24"/>"
        <<60, 115, 118, 103, 32, 120, 109, 108, 110, 115, 61, 34, 104, 116, 116, 112,
          58, 47, 47, 119, 119, 119, 46, 119, 51, 46, 111, 114, 103, 47, 50, 48, 48,
          48, 47, 115, 118, 103, 34, 32, 119, 105, 100, 116, 104, 61, 34, 50, 52, 34,
          32, 104, 101, 105, 103, 104, 116, 61, 34, 50, 52, 34, 47, 62>>]

-----------------------------------------------------------------------------
(* Panic messages, as text. *)

\* The messages of the expect and the asserts of svg.rs
SVG_PANICS ==
    [usvg |->    \* "usvg parse failed"
        <<117, 115, 118, 103, 32, 112, 97, 114, 115, 101, 32, 102, 97, 105, 108, 101,
          100>>,
     line_before_move |->    \* "LineTo before MoveTo in input path"
        <<76, 105, 110, 101, 84, 111, 32, 98, 101, 102, 111, 114, 101, 32, 77, 111,
          118, 101, 84, 111, 32, 105, 110, 32, 105, 110, 112, 117, 116, 32, 112, 97,
          116, 104>>,
     quad_before_move |->    \* "QuadTo before MoveTo in input path"
        <<81, 117, 97, 100, 84, 111, 32, 98, 101, 102, 111, 114, 101, 32, 77, 111, 118,
          101, 84, 111, 32, 105, 110, 32, 105, 110, 112, 117, 116, 32, 112, 97, 116,
          104>>,
     curve_before_move |->    \* "CurveTo before MoveTo in input path"
        <<67, 117, 114, 118, 101, 84, 111, 32, 98, 101, 102, 111, 114, 101, 32, 77,
          111, 118, 101, 84, 111, 32, 105, 110, 32, 105, 110, 112, 117, 116, 32, 112,
          97, 116, 104>>,
     too_small |->    \* "SVG dimensions are too small"
        <<83, 86, 71, 32, 100, 105, 109, 101, 110, 115, 105, 111, 110, 115, 32, 97,
          114, 101, 32, 116, 111, 111, 32, 115, 109, 97, 108, 108>>,
     cannot_scale |->    \* "cannot scale to target box"
        <<99, 97, 110, 110, 111, 116, 32, 115, 99, 97, 108, 101, 32, 116, 111, 32, 116,
          97, 114, 103, 101, 116, 32, 98, 111, 120>>]

\* The messages of the panics of ttf.rs; order_mismatch and empty_svg are the fixed
\* parts of their formats, overflow is the message of an overflowing addition
TTF_PANICS ==
    [order_mismatch |->    \* "glyph order mismatch for collection '"
        <<103, 108, 121, 112, 104, 32, 111, 114, 100, 101, 114, 32, 109, 105, 115, 109,
          97, 116, 99, 104, 32, 102, 111, 114, 32, 99, 111, 108, 108, 101, 99, 116,
          105, 111, 110, 32, 39>>,
     empty_svg |->    \* " svg should not be empty"
        <<32, 115, 118, 103, 32, 115, 104, 111, 117, 108, 100, 32, 110, 111, 116, 32,
          98, 101, 32, 101, 109, 112, 116, 121>>,
     malformed |->    \* "malformed outline"
        <<109, 97, 108, 102, 111, 114, 109, 101, 100, 32, 111, 117, 116, 108, 105, 110,
          101>>,
     pua |->    \* "valid PUA codepoint"
        <<118, 97, 108, 105, 100, 32, 80, 85, 65, 32, 99, 111, 100, 101, 112, 111, 105,
          110, 116>>,
     overflow |->    \* "attempt to add with overflow"
        <<97, 116, 116, 101, 109, 112, 116, 32, 116, 111, 32, 97, 100, 100, 32, 119,
          105, 116, 104, 32, 111, 118, 101, 114, 102, 108, 111, 119>>,
     create |->    \* "cannot create output TTF"
        <<99, 97, 110, 110, 111, 116, 32, 99, 114, 101, 97, 116, 101, 32, 111, 117,
          116, 112, 117, 116, 32, 84, 84, 70>>,
     write |->    \* "failed to write TTF"
        <<102, 97, 105, 108, 101, 100, 32, 116, 111, 32, 119, 114, 105, 116, 101, 32,
          84, 84, 70>>]

-----------------------------------------------------------------------------
(* VectorExtractor: wrap_svg_if_needed, extract_view_box, svg_to_bez. *)

LT_SIGN == 60

wrap_svg_if_needed(svg_or_d) ==
    LET trimmed == Trim(svg_or_d)
    IN IF ~Contains(trimmed, LT_SIGN)
       THEN SVG_OPEN \o PATH_OPEN \o trimmed \o PATH_CLOSE \o SVG_CLOSE
       ELSE IF \E prefix \in ROOT_PREFIXES : StartsWith(trimmed, prefix)
       THEN svg_or_d
       ELSE SVG_OPEN \o svg_or_d \o SVG_CLOSE

RECURSIVE DigitsVal(_)
DigitsVal(s) ==
    IF s = <<>> THEN 0 ELSE 10 * DigitsVal(SubSeq(s, 1, Len(s) - 1)) + (s[Len(s)] - 48)

AllDigits(s) == \A i \in 1..Len(s) : s[i] \in 48..57

RECURSIVE Pow10(_)
Pow10(k) == IF k = 0 THEN 1 ELSE 10 * Pow10(k - 1)

NoF64 == [ok |-> FALSE, val |-> R0]

\* The value of the digits ip, a point and the digits fp
DecimalOf(ip, fp) ==
    IF ~AllDigits(ip) \/ ~AllDigits(fp) \/ Len(ip) + Len(fp) = 0 THEN NoF64
    ELSE [ok |-> TRUE,
          val |-> Rat(DigitsVal(ip) * Pow10(Len(fp)) + DigitsVal(fp), Pow10(Len(fp)))]

\* An unsigned decimal mantissa: digits, digits., .digits or digits.digits
ParseMantissa(s) ==
    LET dot == Find(s, <<46>>)
    IN IF dot = 0 THEN DecimalOf(s, <<>>)
       ELSE DecimalOf(SubSeq(s, 1, dot - 1), SubSeq(s, dot + 1, Len(s)))

\* A decimal exponent: an optional sign and at least one digit; none is 0
ParseExponent(s, present) ==
    IF ~present THEN [ok |-> TRUE, val |-> 0]
    ELSE IF s = <<>> THEN [ok |-> FALSE, val |-> 0]
    ELSE IF s[1] = 45 THEN [ok |-> Len(s) > 1 /\ AllDigits(Tail(s)), val |-> -DigitsVal(Tail(s))]
    ELSE IF s[1] = 43 THEN [ok |-> Len(s) > 1 /\ AllDigits(Tail(s)), val |-> DigitsVal(Tail(s))]
    ELSE [ok |-> AllDigits(s), val |-> DigitsVal(s)]

\* mantissa * 10^exponent
ScaleF64(m, x) ==
    IF ~m.ok \/ ~x.ok THEN NoF64
    ELSE IF x.val >= 0 THEN [ok |-> TRUE, val |-> RMul(m.val, RInt(Pow10(x.val)))]
    ELSE [ok |-> TRUE, val |-> RDiv(m.val, RInt(Pow10(-x.val)))]

\* An unsigned number: a mantissa and, after the first 'e' or 'E', an exponent
ParseUnsigned(body) ==
    LET e == IF Find(body, <<101>>) = 0 THEN Find(body, <<69>>)
             ELSE IF Find(body, <<69>>) = 0 THEN Find(body, <<101>>)
             ELSE SetMin({Find(body, <<69>>), Find(body, <<101>>)})
    IN IF e = 0 THEN ScaleF64(ParseMantissa(body), ParseExponent(<<>>, FALSE))
       ELSE ScaleF64(ParseMantissa(SubSeq(body, 1, e - 1)),
                     ParseExponent(SubSeq(body, e + 1, Len(body)), TRUE))

\* str::parse::<f64> on decimal tokens (sign, digits, fraction, exponent); the
\* spellings of infinity and NaN, which f64 also accepts, are not numbers here.
ParseF64(tok) ==
    IF tok = <<>> THEN NoF64
    ELSE IF tok[1] = 45 THEN [ParseUnsigned(Tail(tok)) EXCEPT !.val = RNeg(@)]
    ELSE IF tok[1] = 43 THEN ParseUnsigned(Tail(tok))
    ELSE ParseUnsigned(tok)

IsViewBoxSeparator(c) == IsWhitespace(c) \/ c = 44

RECURSIVE SortedSeq(_)
SortedSeq(S) == IF S = {} THEN <<>> ELSE <<SetMin(S)>> \o SortedSeq(S \ {SetMin(S)})

\* content.split(separator).filter(non-empty): the maximal separator-free runs
SplitTokens(s) ==
    LET starts == {i \in 1..Len(s) :
                     ~IsViewBoxSeparator(s[i]) /\ (i = 1 \/ IsViewBoxSeparator(s[i - 1]))}
        stop(i) == SetMin({j \in i..Len(s) : j = Len(s) \/ IsViewBoxSeparator(s[j + 1])})
        order == SortedSeq(starts)
    IN [k \in 1..Len(order) |-> SubSeq(s, order[k], stop(order[k]))]

\* filter_map(|s| s.parse::<f64>().ok())
RECURSIVE ParsedValues(_)
ParsedValues(toks) ==
    IF toks = <<>> THEN <<>>
    ELSE IF ParseF64(Head(toks)).ok
    THEN <<ParseF64(Head(toks)).val>> \o ParsedValues(Tail(toks))
    ELSE ParsedValues(Tail(toks))

\* Option<Rect>::None
NoRect == [some |-> FALSE, x0 |-> R0, y0 |-> R0, x1 |-> R0, y1 |-> R0]

\* Rect::new
Rect(x0, y0, x1, y1) == [some |-> TRUE, x0 |-> x0, y0 |-> y0, x1 |-> x1, y1 |-> y1]

RectWidth(r) == RSub(r.x1, r.x0)

RectHeight(r) == RSub(r.y1, r.y0)

DOUBLE_QUOTE == 34

SINGLE_QUOTE == 39

\* svg.rs 271-278: the first four numbers make the rectangle
RectOfValues(values) ==
    IF Len(values) < 4 THEN NoRect
    ELSE IF RLe(values[3], R0) \/ RLe(values[4], R0) THEN NoRect
    ELSE Rect(values[1], values[2], RAdd(values[1], values[3]), RAdd(values[2], values[4]))

\* svg.rs 260-270: rest is what follows the attribute name, start-trimmed; the
\* content runs from its quote to the next quote of the same kind
ViewBoxAfter(rest) ==
    IF rest = <<>> THEN NoRect
    ELSE IF rest[1] # DOUBLE_QUOTE /\ rest[1] # SINGLE_QUOTE THEN NoRect
    ELSE LET close == Find(Tail(rest), <<rest[1]>>)
         IN IF close = 0 THEN NoRect
            ELSE RectOfValues(ParsedValues(SplitTokens(SubSeq(rest, 2, close))))

extract_view_box(svg) ==
    LET at == Find(svg, VIEWBOX_ATTR)
    IN IF at = 0 THEN NoRect
       ELSE ViewBoxAfter(TrimStart(SubSeq(svg, at + Len(VIEWBOX_ATTR), Len(svg))))

\* kurbo::PathEl
MoveTo(p) == [kind |-> "MoveTo", pts |-> <<p>>]

LineTo(p) == [kind |-> "LineTo", pts |-> <<p>>]

QuadTo(c, p) == [kind |-> "QuadTo", pts |-> <<c, p>>]

CurveTo(c1, c2, p) == [kind |-> "CurveTo", pts |-> <<c1, c2, p>>]

ClosePath == [kind |-> "ClosePath", pts |-> <<>>]

\* Tree::from_data followed by collect_group_paths: the outlines the document
\* parser yields for the documents of the model; any other document does not parse.
UsvgOutline(svg) ==
    CASE svg = wrap_svg_if_needed(IconText.triangle) ->
            [ok |-> TRUE,
             outline |-> <<MoveTo(IPt(0, 0)), LineTo(IPt(24, 0)), LineTo(IPt(24, 24)),
                           ClosePath>>]
      [] svg = wrap_svg_if_needed(IconText.cubic) ->
            [ok |-> TRUE,
             outline |-> <<MoveTo(IPt(0, 0)), CurveTo(IPt(0, 24), IPt(24, 24), IPt(24, 0)),
                           ClosePath>>]
      [] svg = wrap_svg_if_needed(IconText.fragment) -> [ok |-> TRUE, outline |-> <<>>]
      [] svg = IconText.document ->
            [ok |-> TRUE,
             outline |-> <<MoveTo(IPt(0, 0)), LineTo(IPt(48, 0)), LineTo(IPt(48, 48)),
                           ClosePath>>]
      [] svg = IconText.hollow -> [ok |-> TRUE, outline |-> <<>>]
      [] OTHER -> [ok |-> FALSE, outline |-> <<>>]

\* ParsedSvg
ParsedSvg(outline, view_box) == [outline |-> outline, view_box |-> view_box]

NoParsedSvg == ParsedSvg(<<>>, NoRect)

-----------------------------------------------------------------------------
(* CurveNormalizer: bezpath_with_quadratics. *)

VAdd(p, q) == Pt(RAdd(p.x, q.x), RAdd(p.y, q.y))

VSub(p, q) == Pt(RSub(p.x, q.x), RSub(p.y, q.y))

VScale(r, p) == Pt(RMul(r, p.x), RMul(r, p.y))

\* const TOLERANCE: f64 = 0.1
TOLERANCE == Rat(1, 10)

\* kurbo CubicBez::eval
CubicEval(c, t) ==
    LET mt == RSub(RInt(1), t)
    IN VAdd(VScale(RMul(mt, RMul(mt, mt)), c[1]),
            VScale(t, VAdd(VScale(RMul(RInt(3), RMul(mt, mt)), c[2]),
                           VScale(t, VAdd(VScale(RMul(RInt(3), mt), c[3]),
                                          VScale(t, c[4]))))))

\* kurbo QuadBez::eval
QuadEval(p0, p1, p2, t) ==
    VAdd(VScale(RMul(RSub(RInt(1), t), RSub(RInt(1), t)), p0),
         VAdd(VScale(RMul(RInt(2), RMul(RSub(RInt(1), t), t)), p1),
              VScale(RMul(t, t), p2)))

\* kurbo CubicBez::deriv().eval: the derivative is the quadratic on 3*(p[i+1]-p[i])
CubicDerivEval(c, t) ==
    QuadEval(VScale(RInt(3), VSub(c[2], c[1])), VScale(RInt(3), VSub(c[3], c[2])),
             VScale(RInt(3), VSub(c[4], c[3])), t)

\* kurbo CubicBez::subsegment
CubicSubsegment(c, t0, t1) ==
    LET p0 == CubicEval(c, t0)
        p3 == CubicEval(c, t1)
        scale == RDiv(RSub(t1, t0), RInt(3))
    IN <<p0, VAdd(p0, VScale(scale, CubicDerivEval(c, t0))),
         VSub(p3, VScale(scale, CubicDerivEval(c, t1))), p3>>

\* The least n >= from with n^6 >= ratio: max(1, ceil(ratio^(1/6)))
RECURSIVE CeilSixthRoot(_, _)
CeilSixthRoot(ratio, from) ==
    IF RLe(ratio, RInt(from * from * from * from * from * from)) THEN from
    ELSE CeilSixthRoot(ratio, from + 1)

\* The squared length of a vector
Hypot2(p) == RAdd(RMul(p.x, p.x), RMul(p.y, p.y))

\* kurbo CubicBez::to_quads: the number of quadratics for the given accuracy
ToQuadsCount(c, accuracy) ==
    CeilSixthRoot(RDiv(Hypot2(VSub(VSub(VScale(RInt(3), c[3]), c[4]),
                                   VSub(VScale(RInt(3), c[2]), c[1]))),
                       RMul(RInt(432), RMul(accuracy, accuracy))), 1)

\* The quadratic <<p0, p1, p2>> that stands for the cubic seg
QuadOfSegment(seg) ==
    <<seg[1],
      VScale(Rat(1, 4), VAdd(VSub(VScale(RInt(3), seg[2]), seg[1]),
                             VSub(VScale(RInt(3), seg[3]), seg[4]))),
      seg[4]>>

\* kurbo CubicBez::to_quads: the quadratics <<p0, p1, p2>> of the n equal
\* subsegments of c, in order
to_quads(c, accuracy) ==
    LET n == ToQuadsCount(c, accuracy)
    IN [i \in 1..n |-> QuadOfSegment(CubicSubsegment(c, Rat(i - 1, n), Rat(i, n)))]

\* The state of the loop of bezpath_with_quadratics before the first element
QuadInit ==
    [out |-> <<>>, subpath_start |-> POINT_ZERO, current_point |-> POINT_ZERO,
     current_point_set |-> FALSE, panic |-> <<>>]

\* svg.rs 201-205: each quadratic is pushed and becomes the current point
PushQuads(st, quads) ==
    [st EXCEPT !.out = @ \o [i \in 1..Len(quads) |-> QuadTo(quads[i][2], quads[i][3])],
               !.current_point = IF Len(quads) = 0 THEN @ ELSE quads[Len(quads)][3]]

\* Faulty variant of QuadStep: a cubic is pushed as it is, like a quadratic
QuadStepKeepCubic(st, el) ==
    CASE el.kind = "MoveTo" ->
            [st EXCEPT !.out = Append(@, el), !.subpath_start = el.pts[1],
                       !.current_point = el.pts[1], !.current_point_set = TRUE]
      [] el.kind = "LineTo" ->
            IF ~st.current_point_set
            THEN [st EXCEPT !.panic = SVG_PANICS.line_before_move]
            ELSE [st EXCEPT !.out = Append(@, el), !.current_point = el.pts[1]]
      [] el.kind = "QuadTo" ->
            IF ~st.current_point_set
            THEN [st EXCEPT !.panic = SVG_PANICS.quad_before_move]
            ELSE [st EXCEPT !.out = Append(@, el), !.current_point = el.pts[2]]
      [] el.kind = "CurveTo" ->
            IF ~st.current_point_set
            THEN [st EXCEPT !.panic = SVG_PANICS.curve_before_move]
            ELSE [st EXCEPT !.out = Append(@, el), !.current_point = el.pts[3]]
      [] el.kind = "ClosePath" ->
            [st EXCEPT !.out = Append(@, el), !.current_point = st.subpath_start]

\* Faulty variant of QuadStep: a close counts as a moveto seen
QuadStepCloseSetsFlag(st, el) ==
    CASE el.kind = "MoveTo" ->
            [st EXCEPT !.out = Append(@, el), !.subpath_start = el.pts[1],
                       !.current_point = el.pts[1], !.current_point_set = TRUE]
      [] el.kind = "LineTo" ->
            IF ~st.current_point_set
            THEN [st EXCEPT !.panic = SVG_PANICS.line_before_move]
            ELSE [st EXCEPT !.out = Append(@, el), !.current_point = el.pts[1]]
      [] el.kind = "QuadTo" ->
            IF ~st.current_point_set
            THEN [st EXCEPT !.panic = SVG_PANICS.quad_before_move]
            ELSE [st EXCEPT !.out = Append(@, el), !.current_point = el.pts[2]]
      [] el.kind = "CurveTo" ->
            IF ~st.current_point_set
            THEN [st EXCEPT !.panic = SVG_PANICS.curve_before_move]
            ELSE PushQuads(st, to_quads(<<st.current_point, el.pts[1], el.pts[2],
                                          el.pts[3]>>, TOLERANCE))
      [] el.kind = "ClosePath" ->
            [st EXCEPT !.out = Append(@, el), !.current_point = st.subpath_start,
                       !.current_point_set = TRUE]

\* Faulty variant of QuadStep: a close leaves the current point where it is
QuadStepCloseStays(st, el) ==
    CASE el.kind = "MoveTo" ->
            [st EXCEPT !.out = Append(@, el), !.subpath_start = el.pts[1],
                       !.current_point = el.pts[1], !.current_point_set = TRUE]
      [] el.kind = "LineTo" ->
            IF ~st.current_point_set
            THEN [st EXCEPT !.panic = SVG_PANICS.line_before_move]
            ELSE [st EXCEPT !.out = Append(@, el), !.current_point = el.pts[1]]
      [] el.kind = "QuadTo" ->
            IF ~st.current_point_set
            THEN [st EXCEPT !.panic = SVG_PANICS.quad_before_move]
            ELSE [st EXCEPT !.out = Append(@, el), !.current_point = el.pts[2]]
      [] el.kind = "CurveTo" ->
            IF ~st.current_point_set
            THEN [st EXCEPT !.panic = SVG_PANICS.curve_before_move]
            ELSE PushQuads(st, to_quads(<<st.current_point, el.pts[1], el.pts[2],
                                          el.pts[3]>>, TOLERANCE))
      [] el.kind = "ClosePath" ->
            [st EXCEPT !.out = Append(@, el)]

\* One iteration of the loop of bezpath_with_quadratics: the match on the element
QuadStep(st, el) ==
    CASE el.kind = "MoveTo" ->
            [st EXCEPT !.out = Append(@, el), !.subpath_start = el.pts[1],
                       !.current_point = el.pts[1], !.current_point_set = TRUE]
      [] el.kind = "LineTo" ->
            IF ~st.current_point_set
            THEN [st EXCEPT !.panic = SVG_PANICS.line_before_move]
            ELSE [st EXCEPT !.out = Append(@, el), !.current_point = el.pts[1]]
      [] el.kind = "QuadTo" ->
            IF ~st.current_point_set
            THEN [st EXCEPT !.panic = SVG_PANICS.quad_before_move]
            ELSE [st EXCEPT !.out = Append(@, el), !.current_point = el.pts[2]]
      [] el.kind = "CurveTo" ->
            IF ~st.current_point_set
            THEN [st EXCEPT !.panic = SVG_PANICS.curve_before_move]
            ELSE PushQuads(st, to_quads(<<st.current_point, el.pts[1], el.pts[2],
                                          el.pts[3]>>, TOLERANCE))
      [] el.kind = "ClosePath" ->
            [st EXCEPT !.out = Append(@, el), !.current_point = st.subpath_start]

RECURSIVE QuadRun(_, _, _)
QuadRun(st, path, i) ==
    IF i > Len(path) \/ st.panic # <<>> THEN st
    ELSE QuadRun(QuadStep(st, path[i]), path, i + 1)

\* bezpath_with_quadratics: the final loop state; its out is the result
bezpath_with_quadratics(path) == QuadRun(QuadInit, path, 1)

\* svg_to_bez: the outline and the view box of the wrapped document
svg_to_bez(svg_or_d) ==
    LET svg == wrap_svg_if_needed(svg_or_d)
    IN [ok |-> UsvgOutline(svg).ok,
        parsed |-> ParsedSvg(UsvgOutline(svg).outline, extract_view_box(svg))]

-----------------------------------------------------------------------------
(* EmSpaceMapper: map_svg_to_em_space. *)

\* const MIN_DIM: f64 = 1e-6
MIN_DIM == Rat(1, 1000000)

\* kurbo QuadBez::extrema: the interior parameters where x or y is extremal, the
\* roots of the derivative d0 + t*dd per coordinate
QuadExtrema(p0, p1, p2) ==
    LET d0 == VSub(p1, p0)
        dd == VSub(VSub(p2, p1), VSub(p1, p0))
    IN {t \in (IF dd.x = R0 THEN {} ELSE {RDiv(RNeg(d0.x), dd.x)})
             \cup (IF dd.y = R0 THEN {} ELSE {RDiv(RNeg(d0.y), dd.y)}) :
          RLt(R0, t) /\ RLt(t, RInt(1))}

\* The points whose hull is the bounding box of the segments of a path
\* (kurbo segments: a MoveTo starts a subpath, a ClosePath draws the line back)
RECURSIVE SegmentPoints(_, _, _, _)
SegmentPoints(path, i, start, last) ==
    IF i > Len(path) THEN {}
    ELSE LET el == path[i]
         IN CASE el.kind = "MoveTo" -> SegmentPoints(path, i + 1, el.pts[1], el.pts[1])
              [] el.kind = "LineTo" ->
                    {last, el.pts[1]} \cup SegmentPoints(path, i + 1, start, el.pts[1])
              [] el.kind = "QuadTo" ->
                    {last, el.pts[2]}
                    \cup {QuadEval(last, el.pts[1], el.pts[2], t) :
                            t \in QuadExtrema(last, el.pts[1], el.pts[2])}
                    \cup SegmentPoints(path, i + 1, start, el.pts[2])
              [] el.kind = "CurveTo" ->
                    {last, el.pts[1], el.pts[2], el.pts[3]}
                    \cup SegmentPoints(path, i + 1, start, el.pts[3])
              [] el.kind = "ClosePath" ->
                    (IF last # start THEN {last, start} ELSE {})
                    \cup SegmentPoints(path, i + 1, start, start)

RatMin(S) == CHOOSE m \in S : \A o \in S : RLe(m, o)

RatMax(S) == CHOOSE m \in S : \A o \in S : RLe(o, m)

\* kurbo BezPath::bounding_box: the least rectangle around the segments, Rect::ZERO
\* for a path without segments; the point the first element ends at opens the
\* first subpath
bounding_box(path) ==
    LET first == IF path = <<>> THEN POINT_ZERO
                 ELSE IF path[1].pts = <<>> THEN POINT_ZERO
                 ELSE path[1].pts[Len(path[1].pts)]
        ps == SegmentPoints(path, 1, first, first)
    IN IF ps = {} THEN Rect(R0, R0, R0, R0)
       ELSE Rect(RatMin({p.x : p \in ps}), RatMin({p.y : p \in ps}),
                 RatMax({p.x : p \in ps}), RatMax({p.y : p \in ps}))

\* Faulty variant of ApplyEmAffine: the vertical axis is not flipped
ApplyEmAffineNoFlip(path, ox, oy, s, ty) ==
    LET map(p) == Pt(RMul(RSub(p.x, ox), s), RMul(RSub(p.y, oy), s))
    IN [i \in 1..Len(path) |->
          [path[i] EXCEPT !.pts = [k \in 1..Len(path[i].pts) |-> map(path[i].pts[k])]]]

\* BezPath::apply_affine of translate(-ox, -oy).then_scale_non_uniform(s, -s)
\* .then_translate(0, ty)
ApplyEmAffine(path, ox, oy, s, ty) ==
    LET map(p) == Pt(RMul(RSub(p.x, ox), s), RAdd(RMul(RSub(p.y, oy), RNeg(s)), ty))
    IN [i \in 1..Len(path) |->
          [path[i] EXCEPT !.pts = [k \in 1..Len(path[i].pts) |-> map(path[i].pts[k])]]]

\* Faulty variant of UsableViewBox: the threshold of extract_view_box, 0, in place
\* of MIN_DIM
UsableViewBoxPositive(vb) == vb.some /\ RLt(R0, RectWidth(vb)) /\ RLt(R0, RectHeight(vb))

\* svg.rs 232: the view box is used when both its sides exceed MIN_DIM
UsableViewBox(vb) == vb.some /\ RLt(MIN_DIM, RectWidth(vb)) /\ RLt(MIN_DIM, RectHeight(vb))

\* Faulty variant of MapWithBox: the assert on the sides of the bounding box comes
\* after the view-box branch
MapWithBoxLateAssert(parsed, svg_bbox, units_per_em, max_width, max_height) ==
    IF UsableViewBox(parsed.view_box)
    THEN [panic |-> <<>>,
          parsed |-> [parsed EXCEPT !.outline =
              ApplyEmAffine(@, parsed.view_box.x0, parsed.view_box.y0,
                            RDiv(RInt(units_per_em), RectHeight(parsed.view_box)),
                            RInt(units_per_em))]]
    ELSE IF ~(RLt(MIN_DIM, RectWidth(svg_bbox)) /\ RLt(MIN_DIM, RectHeight(svg_bbox)))
    THEN [panic |-> SVG_PANICS.too_small, parsed |-> parsed]
    ELSE LET scale == RMin(RDiv(max_width, RectWidth(svg_bbox)),
                           RDiv(max_height, RectHeight(svg_bbox)))
         IN IF ~RLt(MIN_DIM, scale)
            THEN [panic |-> SVG_PANICS.cannot_scale, parsed |-> parsed]
            ELSE [panic |-> <<>>,
                  parsed |-> [parsed EXCEPT !.outline =
                      ApplyEmAffine(@, svg_bbox.x0, svg_bbox.y0, scale,
                                    RMul(scale, RectHeight(svg_bbox)))]]

\* Faulty variant of MapWithBox: the view-box branch scales by the width of the box
MapWithBoxByWidth(parsed, svg_bbox, units_per_em, max_width, max_height) ==
    IF ~(RLt(MIN_DIM, RectWidth(svg_bbox)) /\ RLt(MIN_DIM, RectHeight(svg_bbox)))
    THEN [panic |-> SVG_PANICS.too_small, parsed |-> parsed]
    ELSE IF UsableViewBox(parsed.view_box)
    THEN [panic |-> <<>>,
          parsed |-> [parsed EXCEPT !.outline =
              ApplyEmAffine(@, parsed.view_box.x0, parsed.view_box.y0,
                            RDiv(RInt(units_per_em), RectWidth(parsed.view_box)),
                            RInt(units_per_em))]]
    ELSE LET scale == RMin(RDiv(max_width, RectWidth(svg_bbox)),
                           RDiv(max_height, RectHeight(svg_bbox)))
         IN IF ~RLt(MIN_DIM, scale)
            THEN [panic |-> SVG_PANICS.cannot_scale, parsed |-> parsed]
            ELSE [panic |-> <<>>,
                  parsed |-> [parsed EXCEPT !.outline =
                      ApplyEmAffine(@, svg_bbox.x0, svg_bbox.y0, scale,
                                    RMul(scale, RectHeight(svg_bbox)))]]

\* Faulty variant of MapWithBox: the bounding-box branch scales by the larger of the
\* two ratios
MapWithBoxLooseFit(parsed, svg_bbox, units_per_em, max_width, max_height) ==
    IF ~(RLt(MIN_DIM, RectWidth(svg_bbox)) /\ RLt(MIN_DIM, RectHeight(svg_bbox)))
    THEN [panic |-> SVG_PANICS.too_small, parsed |-> parsed]
    ELSE IF UsableViewBox(parsed.view_box)
    THEN [panic |-> <<>>,
          parsed |-> [parsed EXCEPT !.outline =
              ApplyEmAffine(@, parsed.view_box.x0, parsed.view_box.y0,
                            RDiv(RInt(units_per_em), RectHeight(parsed.view_box)),
                            RInt(units_per_em))]]
    ELSE LET scale == RNeg(RMin(RNeg(RDiv(max_width, RectWidth(svg_bbox))),
                                RNeg(RDiv(max_height, RectHeight(svg_bbox)))))
         IN IF ~RLt(MIN_DIM, scale)
            THEN [panic |-> SVG_PANICS.cannot_scale, parsed |-> parsed]
            ELSE [panic |-> <<>>,
                  parsed |-> [parsed EXCEPT !.outline =
                      ApplyEmAffine(@, svg_bbox.x0, svg_bbox.y0, scale,
                                    RMul(scale, RectHeight(svg_bbox)))]]

\* svg.rs 223-255 on the bounding box of the outline: the assert on its sides, the
\* view-box branch, the assert on the scale, the bounding-box branch
MapWithBox(parsed, svg_bbox, units_per_em, max_width, max_height) ==
    IF ~(RLt(MIN_DIM, RectWidth(svg_bbox)) /\ RLt(MIN_DIM, RectHeight(svg_bbox)))
    THEN [panic |-> SVG_PANICS.too_small, parsed |-> parsed]
    ELSE IF UsableViewBox(parsed.view_box)
    THEN [panic |-> <<>>,
          parsed |-> [parsed EXCEPT !.outline =
              ApplyEmAffine(@, parsed.view_box.x0, parsed.view_box.y0,
                            RDiv(RInt(units_per_em), RectHeight(parsed.view_box)),
                            RInt(units_per_em))]]
    ELSE LET scale == RMin(RDiv(max_width, RectWidth(svg_bbox)),
                           RDiv(max_height, RectHeight(svg_bbox)))
         IN IF ~RLt(MIN_DIM, scale)
            THEN [panic |-> SVG_PANICS.cannot_scale, parsed |-> parsed]
            ELSE [panic |-> <<>>,
                  parsed |-> [parsed EXCEPT !.outline =
                      ApplyEmAffine(@, svg_bbox.x0, svg_bbox.y0, scale,
                                    RMul(scale, RectHeight(svg_bbox)))]]

\* map_svg_to_em_space: the mutated ParsedSvg, or the panic of a failed assert
map_svg_to_em_space(parsed, units_per_em, max_width, max_height) ==
    MapWithBox(parsed, bounding_box(parsed.outline), units_per_em, max_width, max_height)

-----------------------------------------------------------------------------
(* The glyph map and glyphs_in_order. *)

\* Collection { name, local }
Collection(name, local) == [name |-> name, local |-> local]

\* The collections of the model: the local one, "local", and a remote one, "mdi"
Collections ==
    {Collection(<<108, 111, 99, 97, 108>>, TRUE), Collection(<<109, 100, 105>>, FALSE)}

\* PackIcon { enum_variant, icon, order }
PackIcon(enum_variant, icon, order) ==
    [enum_variant |-> enum_variant, icon |-> icon, order |-> order]

\* String's Ord: lexicographic on the scalar values
RECURSIVE TextLess(_, _)
TextLess(a, b) ==
    IF b = <<>> THEN FALSE
    ELSE IF a = <<>> THEN TRUE
    ELSE IF Head(a) # Head(b) THEN Head(a) < Head(b)
    ELSE TextLess(Tail(a), Tail(b))

\* #[derive(Ord)] of Collection: by name, then local (false before true)
CollectionLess(a, b) ==
    \/ TextLess(a.name, b.name)
    \/ a.name = b.name /\ ~a.local /\ b.local

\* The keys of a BTreeMap in iteration order
RECURSIVE KeysInOrder(_)
KeysInOrder(S) ==
    IF S = {} THEN <<>>
    ELSE LET least == CHOOSE c \in S : \A o \in S \ {c} : CollectionLess(c, o)
         IN <<least>> \o KeysInOrder(S \ {least})

\* The nested for loops of glyphs_in_order: (order, collection, index) per glyph
RECURSIVE PushEntries(_, _)
PushEntries(map, keys) ==
    IF keys = <<>> THEN <<>>
    ELSE LET collection == Head(keys)
             packs == map[collection]
         IN [i \in 1..Len(packs) |->
               [order |-> packs[i].order, collection |-> collection, index |-> i - 1]]
            \o PushEntries(map, Tail(keys))

\* Faulty variant of MergeByKey: among equal keys the entries of b come first
RECURSIVE MergeByKeyUnstable(_, _)
MergeByKeyUnstable(a, b) ==
    IF a = <<>> THEN b
    ELSE IF b = <<>> THEN a
    ELSE LET h == (Len(a) + 1) \div 2
             below == Cardinality({j \in 1..Len(b) : b[j].order <= a[h].order})
         IN MergeByKeyUnstable(SubSeq(a, 1, h - 1), SubSeq(b, 1, below))
            \o <<a[h]>>
            \o MergeByKeyUnstable(SubSeq(a, h + 1, Len(a)), SubSeq(b, below + 1, Len(b)))

\* The merge of a stable sort: among equal keys the entries of a come first
RECURSIVE MergeByKey(_, _)
MergeByKey(a, b) ==
    IF a = <<>> THEN b
    ELSE IF b = <<>> THEN a
    ELSE LET h == (Len(a) + 1) \div 2
             below == Cardinality({j \in 1..Len(b) : b[j].order < a[h].order})
         IN MergeByKey(SubSeq(a, 1, h - 1), SubSeq(b, 1, below))
            \o <<a[h]>>
            \o MergeByKey(SubSeq(a, h + 1, Len(a)), SubSeq(b, below + 1, Len(b)))

\* ordered.sort_by_key(|(order, _, _)| *order): a stable merge sort
RECURSIVE SortByKey(_)
SortByKey(s) ==
    IF Len(s) <= 1 THEN s
    ELSE LET h == Len(s) \div 2
         IN MergeByKey(SortByKey(SubSeq(s, 1, h)), SortByKey(SubSeq(s, h + 1, Len(s))))

\* Faulty variant of glyphs_in_order: the sort is left out, so the entries come in
\* storage sequence
glyphs_in_storage_order(map) ==
    LET pushed == PushEntries(map, KeysInOrder(DOMAIN map))
    IN [k \in 1..Len(pushed) |->
          [collection |-> pushed[k].collection, index |-> pushed[k].index]]

glyphs_in_order(map) ==
    LET ordered == SortByKey(PushEntries(map, KeysInOrder(DOMAIN map)))
    IN [k \in 1..Len(ordered) |->
          [collection |-> ordered[k].collection, index |-> ordered[k].index]]

-----------------------------------------------------------------------------
(* GlyphAssembler: the glyph records handed to the GlyfLocaBuilder. *)

\* write_fonts OtRound: f64 to i16, halves up
OtRound(r) == (2 * r[1] + r[2]) \div (2 * r[2])

ContourPoint(p, on_curve) == [x |-> OtRound(p.x), y |-> OtRound(p.y), on_curve |-> on_curve]

\* The contours of an outline: a MoveTo opens a contour, a ClosePath ends it
RECURSIVE Contours(_, _, _, _)
Contours(path, i, done, open) ==
    IF i > Len(path) THEN (IF open = <<>> THEN done ELSE Append(done, open))
    ELSE LET el == path[i]
         IN CASE el.kind = "MoveTo" ->
                    Contours(path, i + 1, IF open = <<>> THEN done ELSE Append(done, open),
                             <<ContourPoint(el.pts[1], TRUE)>>)
              [] el.kind = "LineTo" ->
                    Contours(path, i + 1, done, Append(open, ContourPoint(el.pts[1], TRUE)))
              [] el.kind = "QuadTo" ->
                    Contours(path, i + 1, done,
                             open \o <<ContourPoint(el.pts[1], FALSE),
                                       ContourPoint(el.pts[2], TRUE)>>)
              [] el.kind = "ClosePath" ->
                    Contours(path, i + 1, IF open = <<>> THEN done ELSE Append(done, open),
                             <<>>)
              [] OTHER -> Contours(path, i + 1, done, open)

\* Glyph::Empty
GlyphEmpty == [kind |-> "Empty", x_min |-> 0, y_min |-> 0, x_max |-> 0, y_max |-> 0,
               contours |-> <<>>]

\* SimpleGlyph::from_bezpath: a cubic or a drawing command before the first MoveTo
\* is a MalformedPath error
from_bezpath(outline) ==
    LET pts == UNION {{ContourPoint(outline[i].pts[k], TRUE) :
                         k \in 1..Len(outline[i].pts)} : i \in 1..Len(outline)}
        malformed ==
            \/ \E i \in 1..Len(outline) : outline[i].kind = "CurveTo"
            \/ outline # <<>> /\ outline[1].kind # "MoveTo"
    IN IF malformed \/ pts = {} THEN [ok |-> FALSE, glyph |-> GlyphEmpty]
       ELSE [ok |-> TRUE,
             glyph |-> [kind |-> "Simple",
                        x_min |-> SetMin({p.x : p \in pts}),
                        y_min |-> SetMin({p.y : p \in pts}),
                        x_max |-> SetMax({p.x : p \in pts}),
                        y_max |-> SetMax({p.y : p \in pts}),
                        contours |-> Contours(outline, 1, <<>>, <<>>)]]

\* char::from_u32 of a u16: every value but a surrogate is a scalar value
IsScalarValue(cp) == cp < SURROGATE_FIRST \/ cp > SURROGATE_LAST

\* u16::wrapping_add(1)
WrappingInc(v) == (v + 1) % U16

\* Faulty variant of NextCodepoint: the counter is not advanced
KeepCodepoint(cp) == cp

\* next_codepoint.wrapping_add(1)
NextCodepoint(cp) == WrappingInc(cp)

\* Faulty variant of NextGid: the counter is not advanced
KeepGid(gid) == gid

\* next_gid.wrapping_add(1)
NextGid(gid) == WrappingInc(gid)

\* Faulty variant of CharToString: the decimal digits of the number, not the character
CodepointDigits(cp) ==
    <<48 + ((cp \div 10000) % 10), 48 + ((cp \div 1000) % 10),
      48 + ((cp \div 100) % 10), 48 + ((cp \div 10) % 10), 48 + (cp % 10)>>

\* ch.to_string()
CharToString(cp) == <<cp>>

-----------------------------------------------------------------------------
(* FontTableBuilder: the fields of the tables that depend on the glyphs. *)

\* last_char_index; the u16 addition overflows when it passes 0xFFFF
LastCharIndexSum(total_glyphs) ==
    IF total_glyphs > 1 THEN PUA_FIRST + (total_glyphs - 2) ELSE PUA_FIRST

\* An overflowing addition panics in a build with overflow checks and wraps in one
\* without
LastCharOutcomes(total_glyphs) ==
    IF LastCharIndexSum(total_glyphs) < U16 THEN {"exact"} ELSE {"wrap", "panic"}

\* Faulty variant of NumberOfHMetrics: the .notdef glyph is not counted
NumberOfInputGlyphs(total_glyphs) == IF total_glyphs > 1 THEN total_glyphs - 1 ELSE 1

\* hhea.number_of_h_metrics: total_glyphs.max(1)
NumberOfHMetrics(total_glyphs) == IF total_glyphs > 1 THEN total_glyphs ELSE 1

\* The font image: head, hhea, maxp, hmtx, OS/2, cmap, glyf
FontImage(total_glyphs, mappings, glyf) ==
    [units_per_em |-> UNITS_PER_EM,
     ascender |-> UNITS_PER_EM,
     descender |-> 0,
     advance_width_max |-> ADVANCE_WIDTH,
     number_of_h_metrics |-> NumberOfHMetrics(total_glyphs),
     num_glyphs |-> total_glyphs,
     long_metrics |-> [i \in 1..NumberOfHMetrics(total_glyphs) |->
                         [advance |-> ADVANCE_WIDTH, side_bearing |-> 0]],
     us_first_char_index |-> PUA_FIRST,
     us_last_char_index |-> LastCharIndexSum(total_glyphs) % U16,
     cmap |-> mappings,
     glyf |-> glyf]

\* Option<Vec<u8>>: <<>> while no image has been returned
NoImage == <<>>

-----------------------------------------------------------------------------
(* The inputs of generate_font. *)

\* The glyph sources of the model
IconTexts == {IconText[k] : k \in DOMAIN IconText}

\* The global order of the k-th glyph by rank (0-based): distinct, with gaps
OrderValue(k) == 3 * k + 2

\* The identifier of the glyph whose order has rank k: "G" and one more character
VariantName(k) == <<71, 48 + k>>

\* The glyph map whose n glyphs, listed in storage sequence, have the given
\* collections, order ranks and sources; a bucket keeps the storage sequence
GlyphMapOf(n, colls, ranks, icons) ==
    LET used == {colls[i] : i \in 1..n}
        slots(c) == SortedSeq({i \in 1..n : colls[i] = c})
    IN [c \in used |->
          [j \in 1..Len(slots(c)) |->
             PackIcon(VariantName(ranks[slots(c)[j]]), icons[slots(c)[j]],
                      OrderValue(ranks[slots(c)[j]]))]]

\* Every glyph map of n glyphs with pairwise distinct orders
GlyphMaps(n) ==
    {GlyphMapOf(n, colls, ranks, icons) :
        colls \in [1..n -> Collections],
        ranks \in {r \in [1..n -> 0..(n - 1)] : \A i, j \in 1..n : r[i] = r[j] => i = j},
        icons \in [1..n -> IconTexts]}

\* One more glyph than the Private Use Area has codepoints
CapacityGlyphs == PUA_LAST - PUA_FIRST + 2

\* A glyph map of CapacityGlyphs well-formed glyphs in one collection
CapacityMap ==
    [c \in {k \in Collections : ~k.local} |->
        [j \in 1..CapacityGlyphs |->
            PackIcon(VariantName(j - 1), IconText.triangle, OrderValue(j - 1))]]

\* One more glyph than there are 16-bit values from 0xE000 on
WrapGlyphs == U16 - PUA_FIRST + 1

\* A glyph map of WrapGlyphs well-formed glyphs in one collection
WrapMap ==
    [c \in {k \in Collections : ~k.local} |->
        [j \in 1..WrapGlyphs |->
            PackIcon(VariantName(j - 1), IconText.triangle, OrderValue(j - 1))]]

QuadOff ==
    /\ q_path = <<>>
    /\ q_i = 0
    /\ q_st = QuadInit
    /\ q_pc = "off"

InitFont(maps) ==
    /\ glyphs \in maps
    /\ glyphs0 = glyphs
    /\ pc = "call"
    /\ stage = "none"
    /\ ordered_entries = <<>>
    /\ pos = 0
    /\ next_codepoint = 0
    /\ next_gid = 0
    /\ codepoints = <<>>
    /\ gl = <<>>
    /\ parsed_svg = NoParsedSvg
    /\ bytes = NoImage
    /\ file \in {"absent", "old"}
    /\ file0 = file
    /\ panic_msg = <<>>
    /\ QuadOff
    /\ CallOff

Init == InitFont(UNION {GlyphMaps(n) : n \in 0..MaxGlyphs})

InitCapacity == InitFont({CapacityMap, WrapMap} \cup GlyphMaps(1))

-----------------------------------------------------------------------------
(* generate_font and generate_font_bytes. *)

\* ttf.rs 54-69: the .notdef glyph, the counters, the canonical order
Begin ==
    /\ pc = "call"
    /\ pc' = "loop"
    /\ gl' = <<GlyphEmpty>>
    /\ next_codepoint' = PUA_FIRST
    /\ next_gid' = FIRST_GID
    /\ codepoints' = <<>>
    /\ ordered_entries' = glyphs_in_order(glyphs)
    /\ pos' = 1
    /\ stage' = "check"
    /\ UNCHANGED <<glyphs, glyphs0, parsed_svg, bytes, file, file0, panic_msg>>
    /\ UNCHANGED <<quad_vars, call_vars>>

InLoop == pc = "loop" /\ pos <= Len(ordered_entries)

Entry == ordered_entries[pos]

\* glyphs.get_mut(&collection).and_then(|packs| packs.get_mut(index))
HasPack(map, entry) ==
    entry.collection \in DOMAIN map /\ entry.index + 1 <= Len(map[entry.collection])

Pack == glyphs[Entry.collection][Entry.index + 1]

\* Faulty variant of IsBlank: the text is not trimmed
IsEmptyText(icon) == icon = <<>>

\* pack.icon.trim().is_empty()
IsBlank(icon) == Trim(icon) = <<>>

\* The outcome of the body of the loop up to a stage: the panic raised there, or
\* the local parsed_svg and the glyph made of it
Outcome(panic, at, parsed, glyph) ==
    [panic |-> panic, stage |-> at, parsed |-> parsed, glyph |-> glyph]

\* svg_to_quadratics: svg_to_bez and its expect("usvg parse failed"), then
\* parsed_svg.outline = bezpath_with_quadratics(&parsed_svg.outline)
svg_to_quadratics(svg_or_d) ==
    LET bez == svg_to_bez(svg_or_d)
        r == bezpath_with_quadratics(bez.parsed.outline)
    IN IF ~bez.ok THEN Outcome(SVG_PANICS.usvg, "extract", NoParsedSvg, GlyphEmpty)
       ELSE IF r.panic # <<>> THEN Outcome(r.panic, "normalize", bez.parsed, GlyphEmpty)
       ELSE Outcome(<<>>, "normalize", [bez.parsed EXCEPT !.outline = r.out], GlyphEmpty)

\* ttf.rs 58-59, 82: map_svg_to_em_space with max_width = advance_width and
\* max_height = ascent - descent = units_per_em - 0 mutates the local, or one of its
\* asserts fails
MapStage(o) ==
    IF o.panic # <<>> THEN o
    ELSE LET r == map_svg_to_em_space(o.parsed, UNITS_PER_EM, RInt(ADVANCE_WIDTH),
                                      RInt(UNITS_PER_EM - 0))
         IN IF r.panic # <<>> THEN Outcome(r.panic, "map", o.parsed, GlyphEmpty)
            ELSE Outcome(<<>>, "map", r.parsed, GlyphEmpty)

\* ttf.rs 84-89: the simple glyph, its bounding-box minimums forced to zero
GlyphStage(o) ==
    IF o.panic # <<>> THEN o
    ELSE LET sg == from_bezpath(o.parsed.outline)
         IN IF ~sg.ok THEN Outcome(TTF_PANICS.malformed, "glyph", o.parsed, GlyphEmpty)
            ELSE Outcome(<<>>, "glyph", o.parsed,
                         [sg.glyph EXCEPT !.x_min = 0, !.y_min = 0])

\* ttf.rs 80-89: from the source text of a glyph to its simple glyph
LoopBody(icon) == GlyphStage(MapStage(svg_to_quadratics(icon)))

Panic(msg) ==
    /\ pc' = "panic"
    /\ panic_msg' = msg

\* The variables of the loop of generate_font_bytes, as one value
LoopNow ==
    [glyphs |-> glyphs, pos |-> pos, next_codepoint |-> next_codepoint,
     next_gid |-> next_gid, codepoints |-> codepoints, gl |-> gl,
     parsed_svg |-> parsed_svg, stage |-> stage, panic |-> <<>>]

\* Faulty variant of AssignCodepoint: the text is overwritten before the outline
\* is made, so a panic of the body leaves the new text behind
AssignCodepointFirst(ls, entry, o) ==
    IF o.panic # <<>>
    THEN [ls EXCEPT !.glyphs[entry.collection][entry.index + 1].icon =
                        CharToString(ls.next_codepoint),
                    !.parsed_svg = o.parsed, !.stage = o.stage, !.panic = o.panic]
    ELSE IF ~IsScalarValue(ls.next_codepoint)
    THEN [ls EXCEPT !.gl = Append(@, o.glyph), !.parsed_svg = o.parsed,
                    !.stage = "assign", !.panic = TTF_PANICS.pua]
    ELSE [ls EXCEPT !.gl = Append(@, o.glyph),
                    !.codepoints = Append(@, <<ls.next_codepoint, ls.next_gid>>),
                    !.glyphs[entry.collection][entry.index + 1].icon =
                        CharToString(ls.next_codepoint),
                    !.next_codepoint = NextCodepoint(@),
                    !.next_gid = NextGid(@),
                    !.pos = @ + 1,
                    !.parsed_svg = NoParsedSvg,
                    !.stage = "check"]

\* ttf.rs 80-99: a panic of the body of the loop ends the build with nothing of the
\* glyph kept; else the glyph is added, the pair recorded, the text overwritten and
\* the counters advanced; char::from_u32 rejects a surrogate after add_glyph. The
\* local parsed_svg is dropped at the end of the iteration.
AssignCodepoint(ls, entry, o) ==
    IF o.panic # <<>>
    THEN [ls EXCEPT !.parsed_svg = o.parsed, !.stage = o.stage, !.panic = o.panic]
    ELSE IF ~IsScalarValue(ls.next_codepoint)
    THEN [ls EXCEPT !.gl = Append(@, o.glyph), !.parsed_svg = o.parsed,
                    !.stage = "assign", !.panic = TTF_PANICS.pua]
    ELSE [ls EXCEPT !.gl = Append(@, o.glyph),
                    !.codepoints = Append(@, <<ls.next_codepoint, ls.next_gid>>),
                    !.glyphs[entry.collection][entry.index + 1].icon =
                        CharToString(ls.next_codepoint),
                    !.next_codepoint = NextCodepoint(@),
                    !.next_gid = NextGid(@),
                    !.pos = @ + 1,
                    !.parsed_svg = NoParsedSvg,
                    !.stage = "check"]

\* Faulty variant of LoopStep: the entries are taken from the last to the first
LoopStepFromEnd(entries, ls) ==
    LET entry == entries[Len(entries) + 1 - ls.pos]
    IN IF ~HasPack(ls.glyphs, entry)
       THEN [ls EXCEPT !.stage = "check",
                       !.panic = TTF_PANICS.order_mismatch \o entry.collection.name
                                 \o <<39>>]
       ELSE IF IsBlank(ls.glyphs[entry.collection][entry.index + 1].icon)
       THEN [ls EXCEPT !.stage = "check",
                       !.panic = ls.glyphs[entry.collection][entry.index + 1].enum_variant
                                 \o TTF_PANICS.empty_svg]
       ELSE AssignCodepoint(ls, entry,
                            LoopBody(ls.glyphs[entry.collection][entry.index + 1].icon))

\* ttf.rs 70-100: one iteration of the loop, for the entry at ls.pos: the lookup of
\* the glyph, the blank check, then the rest of the body
LoopStep(entries, ls) ==
    LET entry == entries[ls.pos]
    IN IF ~HasPack(ls.glyphs, entry)
       THEN [ls EXCEPT !.stage = "check",
                       !.panic = TTF_PANICS.order_mismatch \o entry.collection.name
                                 \o <<39>>]
       ELSE IF IsBlank(ls.glyphs[entry.collection][entry.index + 1].icon)
       THEN [ls EXCEPT !.stage = "check",
                       !.panic = ls.glyphs[entry.collection][entry.index + 1].enum_variant
                                 \o TTF_PANICS.empty_svg]
       ELSE AssignCodepoint(ls, entry,
                            LoopBody(ls.glyphs[entry.collection][entry.index + 1].icon))

\* ttf.rs 70-100: the iterations for the entries lo..hi in sequence, up to the
\* first panic
RECURSIVE LoopRange(_, _, _, _)
LoopRange(entries, ls, lo, hi) ==
    IF lo > hi \/ ls.panic # <<>> THEN ls
    ELSE IF lo = hi THEN LoopStep(entries, ls)
    ELSE LoopRange(entries, LoopRange(entries, ls, lo, (lo + hi) \div 2),
                   ((lo + hi) \div 2) + 1, hi)

\* The variables of the loop take the values of ls
SetLoop(ls) ==
    /\ glyphs' = ls.glyphs
    /\ pos' = ls.pos
    /\ next_codepoint' = ls.next_codepoint
    /\ next_gid' = ls.next_gid
    /\ codepoints' = ls.codepoints
    /\ gl' = ls.gl
    /\ parsed_svg' = ls.parsed_svg
    /\ stage' = ls.stage
    /\ panic_msg' = ls.panic
    /\ pc' = IF ls.panic = <<>> THEN "loop" ELSE "panic"

LoopFrame == UNCHANGED <<glyphs0, ordered_entries, bytes, file, file0>> /\ UNCHANGED <<quad_vars, call_vars>>

\* ttf.rs 70-100: one iteration of the loop over the ordered entries
ProcessGlyph ==
    /\ InLoop
    /\ \E ls \in {LoopStep(ordered_entries, LoopNow)} :
          ls.panic = <<>> /\ SetLoop(ls)
    /\ LoopFrame

\* ttf.rs 74, 77: the panics of the lookup and of the blank check
PanicSource ==
    /\ InLoop
    /\ \E ls \in {LoopStep(ordered_entries, LoopNow)} :
          ls.panic # <<>> /\ ls.stage = "check" /\ SetLoop(ls)
    /\ LoopFrame

\* svg.rs 161, 189-199, 227-230, 246-249, ttf.rs 84, 92: a panic of the body of the
\* loop after the blank check
PanicGlyph ==
    /\ InLoop
    /\ \E ls \in {LoopStep(ordered_entries, LoopNow)} :
          ls.panic # <<>> /\ ls.stage # "check" /\ SetLoop(ls)
    /\ LoopFrame

\* ttf.rs 70-100: the whole loop over the ordered entries, in one step
RunLoop ==
    /\ InLoop /\ pos = 1
    /\ \E ls \in {LoopRange(ordered_entries, LoopNow, 1, Len(ordered_entries))} :
          SetLoop(ls)
    /\ LoopFrame

\* ttf.rs 102-274: the tables are built from the counters, the pairs and the glyphs
BuildTables ==
    /\ pc = "loop" /\ pos > Len(ordered_entries)
    /\ \E outcome \in LastCharOutcomes(next_gid) :
          IF outcome = "panic"
          THEN Panic(TTF_PANICS.overflow) /\ UNCHANGED bytes
          ELSE /\ bytes' = <<FontImage(next_gid, codepoints, gl)>>
               /\ pc' = "create"
               /\ UNCHANGED panic_msg
    /\ stage' = "none"
    /\ UNCHANGED <<glyphs, glyphs0, ordered_entries, pos, next_codepoint, next_gid,
                   codepoints, gl, parsed_svg, file, file0>>
    /\ UNCHANGED <<quad_vars, call_vars>>

FileFrame ==
    /\ UNCHANGED <<glyphs, glyphs0, stage, ordered_entries, pos, next_codepoint, next_gid,
                   codepoints, gl, parsed_svg, bytes, file0>>
    /\ UNCHANGED <<quad_vars, call_vars>>

\* ttf.rs 285: File::create makes the file, or empties the one that is there
CreateFile ==
    /\ pc = "create"
    /\ file' = "empty"
    /\ pc' = "write"
    /\ UNCHANGED panic_msg
    /\ FileFrame

\* ttf.rs 285: expect("cannot create output TTF")
PanicCreate ==
    /\ pc = "create"
    /\ Panic(TTF_PANICS.create)
    /\ UNCHANGED file
    /\ FileFrame

\* ttf.rs 286: write_all writes the whole image
WriteFile ==
    /\ pc = "write"
    /\ file' = "image"
    /\ pc' = "done"
    /\ UNCHANGED panic_msg
    /\ FileFrame

\* ttf.rs 286: expect("failed to write TTF"); write_all may have written a part
PanicWrite ==
    /\ pc = "write"
    /\ file' \in {"empty", "partial"}
    /\ Panic(TTF_PANICS.write)
    /\ FileFrame

Next ==
    \/ Begin
    \/ PanicSource
    \/ PanicGlyph
    \/ ProcessGlyph
    \/ BuildTables
    \/ CreateFile
    \/ PanicCreate
    \/ WriteFile
    \/ PanicWrite

Spec == Init /\ [][Next]_vars

\* generate_font with the loop of generate_font_bytes taken in one step
NextCapacity ==
    \/ Begin
    \/ RunLoop
    \/ BuildTables
    \/ CreateFile
    \/ PanicCreate
    \/ WriteFile
    \/ PanicWrite

SpecCapacity == InitCapacity /\ [][NextCapacity]_vars

-----------------------------------------------------------------------------
(* bezpath_with_quadratics on its own. *)

\* The points of the input paths
QuadPoints == {IPt(0, 0), IPt(4, 2)}

\* Every path of at most MaxPathLen elements over QuadPoints, and the paths that
\* draw a line, close the subpath and go on with a cubic
QuadPaths ==
    LET elements ==
            {MoveTo(p) : p \in QuadPoints}
            \cup {LineTo(p) : p \in QuadPoints}
            \cup {QuadTo(c, p) : c \in QuadPoints, p \in QuadPoints}
            \cup {CurveTo(c1, c2, p) : c1 \in QuadPoints, c2 \in QuadPoints, p \in QuadPoints}
            \cup {ClosePath}
    IN UNION {[1..n -> elements] : n \in 0..MaxPathLen}
       \cup UNION {{<<MoveTo(p), LineTo(q), ClosePath, CurveTo(c1, c2, q3)>> :
                       q \in QuadPoints \ {p},
                       c1 \in QuadPoints, c2 \in QuadPoints, q3 \in QuadPoints} :
                    p \in QuadPoints}

FontOff ==
    /\ glyphs = <<>>
    /\ glyphs0 = <<>>
    /\ pc = "off"
    /\ stage = "none"
    /\ ordered_entries = <<>>
    /\ pos = 0
    /\ next_codepoint = 0
    /\ next_gid = 0
    /\ codepoints = <<>>
    /\ gl = <<>>
    /\ parsed_svg = NoParsedSvg
    /\ bytes = NoImage
    /\ file = "absent"
    /\ file0 = "absent"
    /\ panic_msg = <<>>

InitQuad ==
    /\ q_path \in QuadPaths
    /\ q_i = 1
    /\ q_st = QuadInit
    /\ q_pc = "run"
    /\ FontOff
    /\ CallOff

\* svg.rs 180-211: one element is matched and handled
QuadElement ==
    /\ q_pc = "run" /\ q_i <= Len(q_path)
    /\ QuadStep(q_st, q_path[q_i]).panic = <<>>
    /\ q_st' = QuadStep(q_st, q_path[q_i])
    /\ q_i' = q_i + 1
    /\ UNCHANGED <<q_path, q_pc>>
    /\ UNCHANGED <<font_vars, call_vars>>

\* svg.rs 189, 194, 199: a failed assert!(current_point_set, ...)
QuadPanic ==
    /\ q_pc = "run" /\ q_i <= Len(q_path)
    /\ QuadStep(q_st, q_path[q_i]).panic # <<>>
    /\ q_st' = QuadStep(q_st, q_path[q_i])
    /\ q_pc' = "panic"
    /\ UNCHANGED <<q_path, q_i>>
    /\ UNCHANGED <<font_vars, call_vars>>

\* svg.rs 213: out is returned
QuadReturn ==
    /\ q_pc = "run" /\ q_i > Len(q_path)
    /\ q_pc' = "done"
    /\ UNCHANGED <<q_path, q_i, q_st>>
    /\ UNCHANGED <<font_vars, call_vars>>

NextQuad ==
    \/ QuadElement
    \/ QuadPanic
    \/ QuadReturn

SpecQuad == InitQuad /\ [][NextQuad]_vars

-----------------------------------------------------------------------------
(* The output path: font_path and module_leaf (src/src/utils/paths.rs). *)

\* str::split(sep): the parts between the matches of sep, found from the left
RECURSIVE SplitOn(_, _)
SplitOn(s, sep) ==
    IF Find(s, sep) = 0 THEN <<s>>
    ELSE <<SubSeq(s, 1, Find(s, sep) - 1)>>
         \o SplitOn(SubSeq(s, Find(s, sep) + Len(sep), Len(s)), sep)

\* module_segments: the trimmed parts between "::" that are not empty; the module
\* itself when there is none and it is not empty
module_segments(module) ==
    LET parts == SplitOn(module, <<58, 58>>)
        kept == SelectSeq([i \in 1..Len(parts) |-> Trim(parts[i])], LAMBDA t : t # <<>>)
    IN IF kept = <<>> /\ module # <<>> THEN <<module>> ELSE kept

\* Faulty variant of module_leaf: the first segment is taken
ModuleFirst(module) ==
    IF module_segments(module) = <<>> THEN module ELSE module_segments(module)[1]

\* module_leaf: the last segment, or the module when there is no segment
module_leaf(module) ==
    IF module_segments(module) = <<>> THEN module
    ELSE module_segments(module)[Len(module_segments(module))]

\* font_path: a path is its root flag and its components, ".." among them.
\* Path::with_file_name drops the last component when it is a file name (not "..")
\* and pushes the new name, here a name without a separator: one component.
font_path(path_hint, module_path) ==
    LET module_name == module_leaf(module_path)
        comps == path_hint.comps
        parent == IF comps # <<>> /\ comps[Len(comps)] # <<46, 46>>
                  THEN SubSeq(comps, 1, Len(comps) - 1)
                  ELSE comps
    IN [out_path |-> [path_hint EXCEPT
                         !.comps = Append(parent, module_name \o <<46, 116, 116, 102>>)],
        module_name |-> module_name]

\* The most glyphs of a glyph map whose orders may be tied
MaxTied == 3

\* The longest module path of the model, but for the example "a::b::icons"
MaxModuleLen == 4

-----------------------------------------------------------------------------
(* Icon::build and up_to_date (src/src/lib.rs), extract_hash. *)

\* utils/hash.rs 3-12: a file is its lines, or not readable; the hash is what
\* follows "/// Icon hash (SHA-256):" on the first line that, trimmed, starts with
\* it, trimmed again
extract_hash(rs_file) ==
    IF ~rs_file.readable
       \/ \A i \in 1..Len(rs_file.lines) : ~StartsWith(Trim(rs_file.lines[i]), <<47, 47, 47, 32, 73, 99, 111, 110, 32, 104, 97, 115, 104, 32, 40, 83, 72, 65, 45, 50, 53, 54, 41, 58>>)
    THEN [some |-> FALSE, text |-> <<>>]
    ELSE [some |-> TRUE,
          text |-> Trim(SubSeq(
              Trim(rs_file.lines[SetMin({i \in 1..Len(rs_file.lines) :
                                         StartsWith(Trim(rs_file.lines[i]), <<47, 47, 47, 32, 73, 99, 111, 110, 32, 104, 97, 115, 104, 32, 40, 83, 72, 65, 45, 50, 53, 54, 41, 58>>)})]),
              24 + 1,
              Len(Trim(rs_file.lines[SetMin({i \in 1..Len(rs_file.lines) :
                                             StartsWith(Trim(rs_file.lines[i]), <<47, 47, 47, 32, 73, 99, 111, 110, 32, 104, 97, 115, 104, 32, 40, 83, 72, 65, 45, 50, 53, 54, 41, 58>>)})]))))]

\* Faulty variant of up_to_date: the recorded hash is not compared
up_to_date_by_files(gen_type, hash, font, module_file) ==
    IF font = "absent" THEN FALSE
    ELSE IF gen_type = "Font" THEN TRUE
    ELSE extract_hash(module_file).some

\* lib.rs 138-153: the font file exists and, for Iced, the module file records the
\* hash of the manifest
up_to_date(gen_type, hash, font, module_file) ==
    IF font = "absent" THEN FALSE
    ELSE IF gen_type = "Font" THEN TRUE
    ELSE extract_hash(module_file) = [some |-> TRUE, text |-> hash]

-----------------------------------------------------------------------------
(* parse_definition (src/src/config/parser.rs): from the manifest to the glyph map. *)

\* Faulty variant of LocalOrder: a local glyph gets its position in the local list
LocalOrderOwn(remote_count, order) == order

\* parser.rs 87: order: remote_count + order
LocalOrder(remote_count, order) == remote_count + order

\* parser.rs 33-94: remote_glyphs and local_assets are the lists of (name, text)
\* of the manifest in file sequence, files gives the asset file of an asset name.
\* The first entry that fails ends the call with its panic; else the glyph map is
\* returned. upper_first_char is modelled on ASCII letters; the module name and
\* the hash of the manifest are left out.
parse_definition(remote_glyphs, local_assets, assets_path, files) ==
    LET reserved == {
             <<97, 115>>,    \* "as"
             <<97, 115, 121, 110, 99>>,    \* "async"
             <<97, 119, 97, 105, 116>>,    \* "await"
             <<98, 114, 101, 97, 107>>,    \* "break"
             <<99, 111, 110, 115, 116>>,    \* "const"
             <<99, 111, 110, 116, 105, 110, 117, 101>>,    \* "continue"
             <<99, 114, 97, 116, 101>>,    \* "crate"
             <<101, 108, 115, 101>>,    \* "else"
             <<101, 110, 117, 109>>,    \* "enum"
             <<101, 120, 116, 101, 114, 110>>,    \* "extern"
             <<102, 97, 108, 115, 101>>,    \* "false"
             <<102, 110>>,    \* "fn"
             <<102, 111, 114>>,    \* "for"
             <<105, 102>>,    \* "if"
             <<105, 109, 112, 108>>,    \* "impl"
             <<105, 110>>,    \* "in"
             <<108, 101, 116>>,    \* "let"
             <<108, 111, 111, 112>>,    \* "loop"
             <<109, 97, 116, 99, 104>>,    \* "match"
             <<109, 111, 100>>,    \* "mod"
             <<109, 111, 118, 101>>,    \* "move"
             <<109, 117, 116>>,    \* "mut"
             <<112, 117, 98>>,    \* "pub"
             <<114, 101, 102>>,    \* "ref"
             <<114, 101, 116, 117, 114, 110>>,    \* "return"
             <<115, 101, 108, 102>>,    \* "self"
             <<83, 101, 108, 102>>,    \* "Self"
             <<115, 116, 97, 116, 105, 99>>,    \* "static"
             <<115, 116, 114, 117, 99, 116>>,    \* "struct"
             <<115, 117, 112, 101, 114>>,    \* "super"
             <<116, 114, 97, 105, 116>>,    \* "trait"
             <<116, 114, 117, 101>>,    \* "true"
             <<116, 121, 112, 101>>,    \* "type"
             <<117, 110, 115, 97, 102, 101>>,    \* "unsafe"
             <<117, 115, 101>>,    \* "use"
             <<119, 104, 101, 114, 101>>,    \* "where"
             <<119, 104, 105, 108, 101>>,    \* "while"
             <<100, 121, 110>>,    \* "dyn"
             <<97, 98, 115, 116, 114, 97, 99, 116>>,    \* "abstract"
             <<98, 101, 99, 111, 109, 101>>,    \* "become"
             <<98, 111, 120>>,    \* "box"
             <<100, 111>>,    \* "do"
             <<102, 105, 110, 97, 108>>,    \* "final"
             <<103, 101, 110>>,    \* "gen"
             <<109, 97, 99, 114, 111>>,    \* "macro"
             <<111, 118, 101, 114, 114, 105, 100, 101>>,    \* "override"
             <<112, 114, 105, 118>>,    \* "priv"
             <<116, 114, 121>>,    \* "try"
             <<116, 121, 112, 101, 111, 102>>,    \* "typeof"
             <<117, 110, 115, 105, 122, 101, 100>>,    \* "unsized"
             <<118, 105, 114, 116, 117, 97, 108>>,    \* "virtual"
             <<121, 105, 101, 108, 100>>    \* "yield"
            }
        upper_first_char(raw) ==
            IF raw # <<>> /\ raw[1] \in 97..122 THEN <<raw[1] - 32>> \o Tail(raw) ELSE raw
        split(i) == Find(remote_glyphs[i][2], <<58, 58>>)
        remote_bad == {i \in 1..Len(remote_glyphs) :
                          split(i) = 0 \/ remote_glyphs[i][1] \in reserved}
        collection_of(i) == Collection(SubSeq(remote_glyphs[i][2], 1, split(i) - 1), FALSE)
        remote_of(c) == SortedSeq({i \in 1..Len(remote_glyphs) : collection_of(i) = c})
        locals == IF assets_path.some THEN local_assets ELSE <<>>
        asset_of(i) == files[Trim(locals[i][2])]
        local_bad == {i \in 1..Len(locals) :
                         \/ Trim(locals[i][2]) = <<>>
                         \/ ~asset_of(i).readable
                         \/ Trim(asset_of(i).content) = <<>>
                         \/ locals[i][1] \in reserved}
        keys == {collection_of(i) : i \in 1..Len(remote_glyphs)}
                \cup (IF locals = <<>> THEN {} ELSE {Collection(<<108, 111, 99, 97, 108>>, TRUE)})
    IN IF remote_bad # {}
       THEN [panic |-> IF split(SetMin(remote_bad)) = 0
                       THEN <<103, 108, 121, 112, 104, 32, 39>> \o remote_glyphs[SetMin(remote_bad)][1]
                       ELSE <<82, 101, 115, 101, 114, 118, 101, 100, 32, 119, 111, 114, 100, 32, 117, 115, 101, 100, 58, 32>> \o remote_glyphs[SetMin(remote_bad)][1],
             value |-> <<>>]
       ELSE IF local_bad # {}
       THEN [panic |-> IF Trim(locals[SetMin(local_bad)][2]) = <<>>
                       THEN <<76, 111, 99, 97, 108, 32, 97, 115, 115, 101, 116, 32, 102, 111, 114, 32, 39>> \o locals[SetMin(local_bad)][1]
                       ELSE IF ~asset_of(SetMin(local_bad)).readable
                       THEN <<70, 97, 105, 108, 101, 100, 32, 116, 111, 32, 114, 101, 97, 100, 32, 108, 111, 99, 97, 108, 32, 97, 115, 115, 101, 116, 32, 39>> \o Trim(locals[SetMin(local_bad)][2])
                       ELSE IF Trim(asset_of(SetMin(local_bad)).content) = <<>>
                       THEN <<76, 111, 99, 97, 108, 32, 97, 115, 115, 101, 116, 32, 39>> \o Trim(locals[SetMin(local_bad)][2])
                       ELSE <<82, 101, 115, 101, 114, 118, 101, 100, 32, 119, 111, 114, 100, 32, 117, 115, 101, 100, 58, 32>> \o locals[SetMin(local_bad)][1],
             value |-> <<>>]
       ELSE [panic |-> <<>>,
             value |->
                [c \in keys |->
                    IF c.local
                    THEN [j \in 1..Len(locals) |->
                            PackIcon(upper_first_char(locals[j][1]),
                                     Trim(asset_of(j).content),
                                     LocalOrder(Len(remote_glyphs), j - 1))]
                    ELSE [j \in 1..Len(remote_of(c)) |->
                            PackIcon(upper_first_char(remote_glyphs[remote_of(c)[j]][1]),
                                     SubSeq(remote_glyphs[remote_of(c)[j]][2],
                                            split(remote_of(c)[j]) + 2,
                                            Len(remote_glyphs[remote_of(c)[j]][2])),
                                     remote_of(c)[j] - 1)]]]

\* The most entries of either list of a manifest
MaxManifest == 2

-----------------------------------------------------------------------------
(* Functions called on their own, on arguments drawn from bounded sets. *)

\* The arguments of the calls, by function
CallInputs ==
    [wrap_svg_if_needed |->
        {[svg_or_d |-> left \o core \o right] :
            left \in {<<>>, <<32>>, <<10>>}, right \in {<<>>, <<32>>},
            core \in {
                <<>>,    \* ""
                <<77, 48, 32, 48>>,    \* "M0 0"
                <<60, 103, 47, 62>>,    \* "<g/>"
                <<60, 115, 118, 103, 47, 62>>,    \* "<svg/>"
                <<60, 63, 120, 109, 108, 63, 62, 60, 115, 118, 103, 47, 62>>,    \* "<?xml?><svg/>"
                <<60, 33, 68, 79, 67, 84, 89, 80, 69, 32, 115, 118, 103, 62, 60, 115, 118, 103, 47, 62>>,    \* "<!DOCTYPE svg><svg/>"
                <<60, 33, 45, 45, 99, 45, 45, 62, 60, 115, 118, 103, 47, 62>>,    \* "<!--c--><svg/>"
                <<60, 103, 62, 60, 115, 118, 103, 47, 62, 60, 47, 103, 62>>    \* "<g><svg/></g>"
            }},
     extract_view_box |->
        {[svg |-> <<60, 115, 118, 103>>]}    \* "<svg"
        \cup {[svg |-> <<60, 115, 118, 103, 32>> \o VIEWBOX_ATTR \o gap \o quotes[1]
                       \o content \o quotes[2] \o <<62>>] :
                gap \in {<<>>, <<32>>},
                quotes \in {<<(<<34>>), (<<34>>)>>, <<(<<39>>), (<<39>>)>>,
                            <<(<<>>), (<<>>)>>, <<(<<34>>), (<<>>)>>,
                            <<(<<34>>), (<<39>>)>>},
                content \in {
                    <<48, 32, 48, 32, 50, 52, 32, 50, 52>>,    \* "0 0 24 24"
                    <<48, 44, 48, 44, 32, 50, 52, 44, 50, 52>>,    \* "0,0, 24,24"
                    <<50, 32, 52, 32, 52, 56, 32, 50, 52>>,    \* "2 4 48 24"
                    <<48, 32, 48, 32, 50, 52>>,    \* "0 0 24"
                    <<48, 32, 48, 32, 120, 32, 50, 52, 32, 50, 52>>,    \* "0 0 x 24 24"
                    <<48, 32, 48, 32, 50, 52, 32, 50, 52, 32, 57>>,    \* "0 0 24 24 9"
                    <<48, 32, 48, 32, 48, 32, 50, 52>>,    \* "0 0 0 24"
                    <<48, 32, 48, 32, 50, 52, 32, 45, 49>>,    \* "0 0 24 -1"
                    <<49, 101, 49, 32, 48, 32, 50, 46, 53, 32, 46, 53>>,    \* "1e1 0 2.5 .5"
                    <<48, 32, 48, 32, 49, 101, 45, 55, 32, 50, 52>>,    \* "0 0 1e-7 24"
                    <<48, 32, 48, 32, 50, 52, 32, 49, 101, 45, 54>>,    \* "0 0 24 1e-6"
                    <<120>>,    \* "x"
                    <<>>    \* ""
                }},
     svg_to_em_space |-> {[svg_or_d |-> icon] : icon \in {t \in IconTexts : ~IsBlank(t)}},
     map_svg_to_em_space |->
        {[parsed_svg |-> ParsedSvg(outline, view_box), units_per_em |-> units_per_em,
          max_width |-> RInt(max[1]), max_height |-> RInt(max[2])] :
            outline \in {<<>>,
                         <<MoveTo(IPt(0, 0)), LineTo(IPt(24, 0))>>,
                         <<MoveTo(IPt(0, 0)), LineTo(IPt(24, 0)), LineTo(IPt(24, 24)),
                           ClosePath>>,
                         <<MoveTo(IPt(2, 4)), QuadTo(IPt(10, 20), IPt(30, 8)),
                           LineTo(IPt(2, 8)), ClosePath>>},
            view_box \in {NoRect,
                          Rect(R0, R0, RInt(24), RInt(24)),
                          Rect(RInt(2), RInt(4), RInt(50), RInt(28)),
                          Rect(R0, R0, RInt(48), RInt(12)),
                          Rect(R0, R0, Rat(1, 10000000), RInt(24)),
                          Rect(R0, R0, RInt(24), MIN_DIM)},
            units_per_em \in {UNITS_PER_EM, 2048},
            max \in {<<1000, 1000>>, <<500, 1000>>, <<1000, 250>>, <<0, 1000>>}},
     font_path |->
        {[path_hint |-> [root |-> hint[1], comps |-> hint[2]], module_path |-> module] :
            hint \in {<<FALSE, <<>> >>,
                      <<FALSE, <<(<<46, 46>>)>> >>,                           \* ".."
                      <<FALSE, <<(<<105, 46, 116>>)>> >>,                     \* "i.t"
                      <<TRUE, <<(<<112>>), (<<105, 46, 116>>)>> >>,           \* "/p/i.t"
                      <<FALSE, <<(<<112>>), (<<46, 46>>), (<<105, 46, 116>>)>> >>},
            module \in {<<97, 58, 58, 98, 58, 58, 105, 99, 111, 110, 115>>}  \* "a::b::icons"
                       \cup UNION {[1..n -> {97, 98, 58, 32}] : n \in 0..MaxModuleLen}},
     glyphs_in_order |->
        UNION {{[glyphs |-> GlyphMapOf(n, colls, ranks, [i \in 1..n |-> IconText.triangle])] :
                  colls \in [1..n -> Collections], ranks \in [1..n -> {0, 1}]} :
               n \in 0..MaxTied},
     parse_definition |->
        {[remote_glyphs |-> remote, local_assets |-> assets, assets_path |-> [some |-> given],
          files |-> \* one.svg, two.svg and blank.svg are there, gone.svg is not
                      (<<111, 110, 101>> :> [readable |-> TRUE, content |-> <<32, 60, 115, 118, 103, 47, 62, 10>>]) @@
                      (<<116, 119, 111>> :> [readable |-> TRUE, content |-> <<77, 48, 32, 48>>]) @@
                      (<<103, 111, 110, 101>> :> [readable |-> FALSE, content |-> <<>>]) @@
                      (<<98, 108, 97, 110, 107>> :> [readable |-> TRUE, content |-> <<32, 10>>])] :
            remote \in {r \in UNION {[1..n -> {
                      <<(<<97>>), (<<109, 100, 105, 58, 58, 104, 111, 109, 101>>)>>,    \* a = "mdi::home"
                      <<(<<98>>), (<<109, 100, 105, 58, 58, 120>>)>>,    \* b = "mdi::x"
                      <<(<<99>>), (<<102, 97, 58, 58, 121>>)>>,    \* c = "fa::y"
                      <<(<<100>>), (<<104, 111, 109, 101>>)>>,    \* d = "home"
                      <<(<<102, 110>>), (<<109, 100, 105, 58, 58, 122>>)>>    \* fn = "mdi::z"
                      }] :
                                       n \in 0..MaxManifest} :
                           \A i, j \in 1..Len(r) : r[i] = r[j] => i = j},
            assets \in {r \in UNION {[1..n -> {
                      <<(<<108>>), (<<111, 110, 101>>)>>,    \* l = "one"
                      <<(<<109>>), (<<32, 116, 119, 111, 32>>)>>,    \* m = " two "
                      <<(<<110>>), (<<32>>)>>,    \* n = " "
                      <<(<<111>>), (<<103, 111, 110, 101>>)>>,    \* o = "gone"
                      <<(<<112>>), (<<98, 108, 97, 110, 107>>)>>    \* p = "blank"
                      }] :
                                       n \in 0..MaxManifest} :
                           \A i, j \in 1..Len(r) : r[i] = r[j] => i = j},
            given \in BOOLEAN},
     build |->
        {[gen_type |-> gen_type, hash |-> hash, font |-> font, module_file |-> module_file] :
            gen_type \in {"Font", "Iced"},
            hash \in {<<65, 66>>, <<67, 68>>},    \* "AB", "CD"
            font \in {"absent", "old"},
            module_file \in {
                    \* no module file
                    [readable |-> FALSE, lines |-> <<>>],
                    \* no hash line
                    [readable |-> TRUE, lines |-> <<(<<47, 47, 32, 105, 99, 111, 110, 115>>)>>],
                    \* the hash AB
                    [readable |-> TRUE, lines |-> <<(<<47, 47, 32, 105, 99, 111, 110, 115>>), (<<47, 47, 47, 32, 73, 99, 111, 110, 32, 104, 97, 115, 104, 32, 40, 83, 72, 65, 45, 50, 53, 54, 41, 58, 32, 65, 66>>)>>],
                    \* the hash AB, indented, unspaced
                    [readable |-> TRUE, lines |-> <<(<<32, 32, 47, 47, 47, 32, 73, 99, 111, 110, 32, 104, 97, 115, 104, 32, 40, 83, 72, 65, 45, 50, 53, 54, 41, 58, 65, 66, 32, 32>>)>>],
                    \* the hash CD
                    [readable |-> TRUE, lines |-> <<(<<47, 47, 47, 32, 73, 99, 111, 110, 32, 104, 97, 115, 104, 32, 40, 83, 72, 65, 45, 50, 53, 54, 41, 58, 32, 67, 68>>)>>],
                    \* the hashes CD and AB
                    [readable |-> TRUE, lines |-> <<(<<47, 47, 47, 32, 73, 99, 111, 110, 32, 104, 97, 115, 104, 32, 40, 83, 72, 65, 45, 50, 53, 54, 41, 58, 32, 67, 68>>), (<<47, 47, 47, 32, 73, 99, 111, 110, 32, 104, 97, 115, 104, 32, 40, 83, 72, 65, 45, 50, 53, 54, 41, 58, 32, 65, 66>>)>>],
                    \* the hash AB after other text
                    [readable |-> TRUE, lines |-> <<(<<120, 32, 47, 47, 47, 32, 73, 99, 111, 110, 32, 104, 97, 115, 104, 32, 40, 83, 72, 65, 45, 50, 53, 54, 41, 58, 32, 65, 66>>)>>]}}]

InitCalls ==
    /\ call_fn \in DOMAIN CallInputs
    /\ call_in \in CallInputs[call_fn]
    /\ call_out = [none |-> TRUE]
    /\ call_pc = "call"
    /\ FontOff
    /\ QuadOff

\* The call ends: the function returns out.value, or panics with the message
\* out.panic
CallEnds(out) ==
    /\ call_out' = out
    /\ call_pc' = IF out.panic = <<>> THEN "return" ELSE "panic"
    /\ UNCHANGED <<call_fn, call_in>>
    /\ UNCHANGED <<font_vars, quad_vars>>

CallWrap ==
    /\ call_pc = "call" /\ call_fn = "wrap_svg_if_needed"
    /\ CallEnds([panic |-> <<>>, value |-> wrap_svg_if_needed(call_in.svg_or_d)])

CallViewBox ==
    /\ call_pc = "call" /\ call_fn = "extract_view_box"
    /\ CallEnds([panic |-> <<>>, value |-> extract_view_box(call_in.svg)])

\* ttf.rs 80-82: svg_to_quadratics, then map_svg_to_em_space on its result
CallSvgToEm ==
    /\ call_pc = "call" /\ call_fn = "svg_to_em_space"
    /\ \E o \in {MapStage(svg_to_quadratics(call_in.svg_or_d))} :
          CallEnds([panic |-> o.panic, value |-> o.parsed])

CallMap ==
    /\ call_pc = "call" /\ call_fn = "map_svg_to_em_space"
    /\ \E r \in {map_svg_to_em_space(call_in.parsed_svg, call_in.units_per_em,
                                     call_in.max_width, call_in.max_height)} :
          CallEnds([panic |-> r.panic, value |-> r.parsed])

CallFontPath ==
    /\ call_pc = "call" /\ call_fn = "font_path"
    /\ \E r \in {font_path(call_in.path_hint, call_in.module_path)} :
          CallEnds([panic |-> <<>>, value |-> r])

\* utils/glyphs.rs 5-21, on glyph maps whose orders may be tied
CallGlyphsInOrder ==
    /\ call_pc = "call" /\ call_fn = "glyphs_in_order"
    /\ \E r \in {glyphs_in_order(call_in.glyphs)} :
          CallEnds([panic |-> <<>>, value |-> r])

CallParse ==
    /\ call_pc = "call" /\ call_fn = "parse_definition"
    /\ \E r \in {parse_definition(call_in.remote_glyphs, call_in.local_assets,
                                  call_in.assets_path, call_in.files)} :
          CallEnds(r)

\* lib.rs 121-123: build returns at once when up_to_date holds
BuildUpToDate ==
    /\ call_pc = "call" /\ call_fn = "build"
    /\ up_to_date(call_in.gen_type, call_in.hash, call_in.font, call_in.module_file)
    /\ CallEnds([panic |-> <<>>,
                 value |-> [steps |-> <<>>, glyphs |-> "manifest", font |-> call_in.font,
                            module_file |-> call_in.module_file]])

\* lib.rs 125, 219-306: fetch_icons replaces the icon names by the fetched
\* documents, or panics (here: "failed to GET Iconify")
BuildFetch ==
    /\ call_pc = "call" /\ call_fn = "build"
    /\ ~up_to_date(call_in.gen_type, call_in.hash, call_in.font, call_in.module_file)
    /\ \E ok \in BOOLEAN :
          /\ call_out' = [panic |-> IF ok THEN <<>> ELSE <<102, 97, 105, 108, 101, 100, 32, 116, 111, 32, 71, 69, 84, 32, 73, 99, 111, 110, 105, 102, 121>>,
                          value |-> [steps |-> <<"fetch">>,
                                     glyphs |-> IF ok THEN "fetched" ELSE "manifest",
                                     font |-> call_in.font,
                                     module_file |-> call_in.module_file]]
          /\ call_pc' = IF ok THEN "fetched" ELSE "panic"
    /\ UNCHANGED <<call_fn, call_in>>
    /\ UNCHANGED <<font_vars, quad_vars>>

\* lib.rs 126-130: generate_font rewrites the icons and writes the font file; it
\* panics in the synthesis, at File::create or at write_all
BuildFont ==
    /\ call_pc = "fetched" /\ call_fn = "build"
    /\ \E end \in {"done", "synthesis", "create", "write"} :
          /\ call_out' =
                [panic |-> CASE end = "done" -> <<>>
                             [] end = "synthesis" -> SVG_PANICS.usvg
                             [] end = "create" -> TTF_PANICS.create
                             [] end = "write" -> TTF_PANICS.write,
                 value |-> [call_out.value EXCEPT
                              !.steps = Append(@, "font"),
                              !.glyphs = IF end = "synthesis" THEN @ ELSE "codepoints",
                              !.font = CASE end = "done" -> "image"
                                         [] end = "write" -> "partial"
                                         [] OTHER -> @]]
          /\ call_pc' = IF end = "done" THEN "written" ELSE "panic"
    /\ UNCHANGED <<call_fn, call_in>>
    /\ UNCHANGED <<font_vars, quad_vars>>

\* lib.rs 132-135, 155-216: Font returns; Iced runs generate_iced, which writes the
\* module file with the hash line of the manifest, or panics at fs::write
BuildIced ==
    /\ call_pc = "written" /\ call_fn = "build"
    /\ \E ok \in (IF call_in.gen_type = "Font" THEN {TRUE} ELSE BOOLEAN) :
          CallEnds([panic |-> IF ok THEN <<>> ELSE <<102, 97, 105, 108, 101, 100, 32, 116, 111, 32, 119, 114, 105, 116, 101, 32, 103, 101, 110, 101, 114, 97, 116, 101, 100, 32, 73, 99, 101, 100, 32, 109, 111, 100, 117, 108, 101>>,
                    value |-> IF call_in.gen_type = "Font" THEN call_out.value
                              ELSE [call_out.value EXCEPT
                                      !.steps = Append(@, "iced"),
                                      !.module_file =
                                          IF ok
                                          THEN [readable |-> TRUE,
                                                lines |-> <<<<47, 47, 47, 32, 73, 99, 111, 110, 32, 104, 97, 115, 104, 32, 40, 83, 72, 65, 45, 50, 53, 54, 41, 58, 32>> \o call_in.hash>>]
                                          ELSE @]])

NextCalls ==
    \/ CallWrap
    \/ CallViewBox
    \/ CallSvgToEm
    \/ CallMap
    \/ CallFontPath
    \/ CallGlyphsInOrder
    \/ CallParse
    \/ BuildUpToDate
    \/ BuildFetch
    \/ BuildFont
    \/ BuildIced

SpecCalls == InitCalls /\ [][NextCalls]_vars

-----------------------------------------------------------------------------
(* Codepoint assignment: properties of generate_font_bytes. *)

\* The (collection, 1-based position) places of a glyph map
Places(map) == UNION {{<<c, i>> : i \in 1..Len(map[c])} : c \in DOMAIN map}

\* The number of glyphs of a glyph map
NumGlyphs(map) == Cardinality(Places(map))

\* The glyph at a (collection, 1-based position) place of a glyph map
GlyphAt(map, p) == map[p[1]][p[2]]

\* The number of glyphs of a map whose global order is below that of the glyph at p
OrderRank(map, p) ==
    Cardinality({q \in Places(map) : GlyphAt(map, q).order < GlyphAt(map, p).order})

\* generate_font_bytes has returned the font image
Returned == bytes # NoImage

-----------------------------------------------------------------------------
(* Fatal conditions and the output file: properties of generate_font. *)

\* The build has ended, by returning or by a panic
Ended == pc \in {"done", "panic"}

\* The glyph at which the loop stands, or stood when the build panicked
AtGlyph == pc \in {"loop", "panic"} /\ pos \in 1..Len(ordered_entries)

\* C6 as stated: whenever a glyph's text is empty after trimming, the build ends in
\* a panic whose message names that glyph's identifier, and the output file is
\* neither created nor written.
C6_EveryBlankNamed ==
    Ended =>
        \A p \in Places(glyphs0) :
            Trim(GlyphAt(glyphs0, p).icon) = <<>> =>
                /\ pc = "panic"
                /\ Find(panic_msg, GlyphAt(glyphs0, p).enum_variant) > 0
                /\ file = file0

\* C6 amended: whenever a glyph's text is empty after trimming, the build never
\* returns an image and the output file stays as it was; and when the glyph the
\* build panics at is one with such a text, the panic is the blank check's, its
\* message is that glyph's identifier followed by " svg should not be empty", and
\* nothing has been extracted for that glyph.
C6_BlankAborts ==
    /\ (\E p \in Places(glyphs0) : Trim(GlyphAt(glyphs0, p).icon) = <<>>) =>
          /\ ~Returned
          /\ pc \notin {"create", "write", "done"}
          /\ file = file0
    /\ (pc = "panic" /\ AtGlyph /\ Trim(Pack.icon) = <<>>) =>
          /\ stage = "check"
          /\ panic_msg = Pack.enum_variant \o TTF_PANICS.empty_svg
          /\ Find(panic_msg, Pack.enum_variant) = 1
          /\ parsed_svg = NoParsedSvg

\* The build panicked at a blank glyph that is second in canonical order, after the
\* first glyph was processed, with an earlier build's file in place
C6_BlankSecond ==
    /\ pc = "panic" /\ AtGlyph /\ pos = 2
    /\ Trim(Pack.icon) = <<>> /\ Pack.icon # <<>>
    /\ Len(codepoints) = 1
    /\ file0 = "old" /\ file = "old"

\* C7: the output file is touched only once generate_font_bytes has returned the
\* image, and a build that has ended leaves either the complete image or the file
\* system as it was: never an empty, truncated or partly written file.
C7_CompleteOrNothing ==
    /\ ~Returned => file = file0
    /\ Ended => (file = "image" \/ file = file0)

\* C8: a glyph map past the capacity of the Private Use Area makes the build abort
\* before an image is returned; no recorded codepoint and no text written to a
\* glyph lies outside U+E000..U+F8FF; the counters never fall back below their
\* starting values.
C8_CapacityEnforced ==
    /\ NumGlyphs(glyphs0) > PUA_LAST - PUA_FIRST + 1 =>
          ~Returned /\ pc \notin {"create", "write", "done"}
    /\ \A k \in 1..Len(codepoints) : codepoints[k][1] \in PUA_FIRST..PUA_LAST
    /\ (pc = "loop" /\ pos > 1) =>
          glyphs[ordered_entries[pos - 1].collection][ordered_entries[pos - 1].index + 1]
              .icon[1] \in PUA_FIRST..PUA_LAST
    /\ pc # "call" => next_codepoint >= PUA_FIRST /\ next_gid >= FIRST_GID

-----------------------------------------------------------------------------
(* Curve normalization: properties of bezpath_with_quadratics. *)

\* The number of elements of a kind in a path
CountKind(path, kind) == Cardinality({i \in 1..Len(path) : path[i].kind = kind})

\* The elements of the input that the loop has handled
Handled == SubSeq(q_path, 1, q_i - 1)

\* C9: while bezpath_with_quadratics has not panicked, its output holds only
\* MoveTo, LineTo, QuadTo and ClosePath; every other element of the input is kept as
\* it is, and every cubic handled has added at least one quadratic.
C9_NoCubicLeft ==
    q_pc \in {"run", "done"} =>
        /\ \A i \in 1..Len(q_st.out) :
              q_st.out[i].kind \in {"MoveTo", "LineTo", "QuadTo", "ClosePath"}
        /\ CountKind(q_st.out, "QuadTo")
              >= CountKind(Handled, "QuadTo") + CountKind(Handled, "CurveTo")
        /\ \A kind \in {"MoveTo", "LineTo", "ClosePath"} :
              CountKind(q_st.out, kind) = CountKind(Handled, kind)

\* A returned path whose one cubic became three quadratics
C9_CubicSplit ==
    /\ q_pc = "done"
    /\ CountKind(q_path, "CurveTo") = 1 /\ CountKind(q_path, "QuadTo") = 0
    /\ CountKind(q_st.out, "QuadTo") = 3 /\ CountKind(q_st.out, "CurveTo") = 0


-----------------------------------------------------------------------------
(* Degenerate outlines, error messages, the sequence of the loop. *)

\* The source text of the k-th glyph in canonical order, as generate_font got it
SourceOf(k) == glyphs0[ordered_entries[k].collection][ordered_entries[k].index + 1].icon

\* The text of the k-th glyph in canonical order, as it is now
TextOf(k) == glyphs[ordered_entries[k].collection][ordered_entries[k].index + 1].icon

\* The outline extracted and normalized from a source text has a bounding box
\* whose width or height is at most 1e-6
DegenerateSource(icon) ==
    /\ svg_to_quadratics(icon).panic = <<>>
    /\ \/ RLe(RectWidth(bounding_box(svg_to_quadratics(icon).parsed.outline)), MIN_DIM)
       \/ RLe(RectHeight(bounding_box(svg_to_quadratics(icon).parsed.outline)), MIN_DIM)

\* C11: a glyph whose outline has a bounding box of width or height at most 1e-6 is
\* never processed: the loop does not get past it, no glyph record and no pair is
\* made for it, its text stays as it was and no image is returned; and when the
\* build stands at such a glyph after a panic, the panic is the one of the assert
\* of map_svg_to_em_space, with or without a usable view box.
C11_DegenerateAborts ==
    /\ \A k \in 1..Len(ordered_entries) :
          DegenerateSource(SourceOf(k)) =>
              /\ pos <= k
              /\ Len(gl) <= k
              /\ Len(codepoints) < k
              /\ TextOf(k) = SourceOf(k)
              /\ ~Returned
    /\ (pc = "panic" /\ AtGlyph /\ DegenerateSource(SourceOf(pos))) =>
          /\ stage = "map"
          /\ panic_msg = SVG_PANICS.too_small

\* The build panicked in map_svg_to_em_space at a glyph without an outline that
\* has a usable view box, second in canonical order
C11_EmptyOutlineInViewBox ==
    /\ pc = "panic" /\ AtGlyph /\ pos = 2
    /\ DegenerateSource(SourceOf(2))
    /\ UsableViewBox(parsed_svg.view_box)
    /\ parsed_svg.outline = <<>>
    /\ panic_msg = SVG_PANICS.too_small
    /\ Len(gl) = 2 /\ Len(codepoints) = 1

-----------------------------------------------------------------------------
(* The outline pipeline and the output path, function by function. *)

\* The call of a function on its own has returned
CallReturned(fn) == call_fn = fn /\ call_pc = "return"

\* C12: the bare path text "M0 0 L24 0 L24 24 Z" has no '<' and is wrapped into the
\* default document; its view box 0 0 24 24 is usable, so the mapping is the one of
\* the view-box branch with scale 1000/24 and a flipped vertical axis: the points
\* (0,0), (24,0), (24,24) go to (0,1000), (1000,1000), (1000,0) and the bounding
\* box of the outline in em space is [0,1000] x [0,1000].
C12_BarePathFillsEm ==
    (call_fn = "svg_to_em_space" /\ call_in.svg_or_d = IconText.triangle) =>
        /\ ~Contains(call_in.svg_or_d, 60)
        /\ wrap_svg_if_needed(call_in.svg_or_d) =
              <<60, 115, 118, 103, 32, 120, 109, 108, 110, 115, 61, 34, 104, 116, 116,
                112, 58, 47, 47, 119, 119, 119, 46, 119, 51, 46, 111, 114, 103, 47, 50,
                48, 48, 48, 47, 115, 118, 103, 34, 32, 118, 105, 101, 119, 66, 111,
                120, 61, 34, 48, 32, 48, 32, 50, 52, 32, 50, 52, 34, 62, 60, 112, 97,
                116, 104, 32, 100, 61, 34, 77, 48, 32, 48, 32, 76, 50, 52, 32, 48, 32,
                76, 50, 52, 32, 50, 52, 32, 90, 34, 47, 62, 60, 47, 115, 118, 103, 62>>
        /\ extract_view_box(wrap_svg_if_needed(call_in.svg_or_d))
              = Rect(R0, R0, RInt(24), RInt(24))
        /\ call_pc # "panic"
        /\ call_pc = "return" =>
              /\ call_out.value.view_box = Rect(R0, R0, RInt(24), RInt(24))
              /\ call_out.value.outline =
                    <<MoveTo(Pt(RMul(R0, Rat(1000, 24)), RInt(1000))),
                      LineTo(Pt(RMul(RInt(24), Rat(1000, 24)), RInt(1000))),
                      LineTo(Pt(RInt(1000), R0)), ClosePath>>
              /\ bounding_box(call_out.value.outline)
                    = Rect(R0, R0, RInt(1000), RInt(1000))

\* The bare path text has been taken to em space
C12_BarePathMapped ==
    /\ CallReturned("svg_to_em_space")
    /\ call_in.svg_or_d = IconText.triangle
    /\ call_out.value.outline[2] = LineTo(IPt(1000, 1000))

\* The trimmed parts of a module path between "::" that are not empty
NamedSegments(module) ==
    SelectSeq([i \in 1..Len(SplitOn(module, <<58, 58>>)) |->
                  Trim(SplitOn(module, <<58, 58>>)[i])],
              LAMBDA t : t # <<>>)

\* C13: font_path names the module after the last non-empty, trimmed segment of the
\* module path between "::", and the output path is the manifest path with only
\* its file name replaced by <module-basename>.ttf: the same root and the same
\* directory components.
C13_FontBesideManifest ==
    CallReturned("font_path") =>
        /\ NamedSegments(call_in.module_path) # <<>> =>
              /\ call_out.value.module_name
                    = NamedSegments(call_in.module_path)[Len(NamedSegments(call_in.module_path))]
              /\ call_out.value.module_name # <<>>
              /\ call_out.value.module_name = Trim(call_out.value.module_name)
              /\ Find(call_out.value.module_name, <<58, 58>>) = 0
        /\ (call_in.path_hint.comps # <<>>
              /\ call_in.path_hint.comps[Len(call_in.path_hint.comps)] # <<46, 46>>) =>
              /\ call_out.value.out_path.root = call_in.path_hint.root
              /\ Len(call_out.value.out_path.comps) = Len(call_in.path_hint.comps)
              /\ \A i \in 1..(Len(call_in.path_hint.comps) - 1) :
                    call_out.value.out_path.comps[i] = call_in.path_hint.comps[i]
              /\ call_out.value.out_path.comps[Len(call_in.path_hint.comps)]
                    = call_out.value.module_name \o <<46, 116, 116, 102>>

\* Module a::b::icons with the manifest /p/i.t gives /p/icons.ttf
C13_IconsTtf ==
    /\ CallReturned("font_path")
    /\ call_in.module_path = <<97, 58, 58, 98, 58, 58, 105, 99, 111, 110, 115>>
    /\ call_in.path_hint = [root |-> TRUE, comps |-> <<(<<112>>), (<<105, 46, 116>>)>>]
    /\ call_out.value.out_path
          = [root |-> TRUE,
             comps |-> <<(<<112>>), (<<105, 99, 111, 110, 115, 46, 116, 116, 102>>)>>]

\* C14 as stated, for the panics of the loop: the message of every panic raised
\* while a glyph is processed contains the identifier of that glyph or the name of
\* its collection.
C14_EveryPanicNamed ==
    (pc = "panic" /\ AtGlyph) =>
        \/ Find(panic_msg, Pack.enum_variant) > 0
        \/ Find(panic_msg, Entry.collection.name) > 0

\* C15: the glyphs are processed one at a time in canonical order. At any time
\* after the ordering, every glyph before the position of the loop is complete (its
\* record added, its pair recorded, its text overwritten with its own codepoint),
\* no glyph after that position has been touched, and the glyph at that position
\* has neither pair nor new text: a panic leaves it between its steps, with its
\* record added at the latest, and ends the build there.
C15_OneGlyphAtATime ==
    pc # "call" =>
        /\ pos \in 1..(Len(ordered_entries) + 1)
        /\ Len(codepoints) = pos - 1
        /\ Len(gl) \in {pos, pos + 1}
        /\ Len(gl) = pos + 1 => (pc = "panic" /\ stage = "assign")
        /\ \A k \in 1..Len(ordered_entries) :
              /\ k < pos => /\ TextOf(k) = <<PUA_FIRST + (k - 1)>>
                            /\ codepoints[k] = <<PUA_FIRST + (k - 1), FIRST_GID + (k - 1)>>
              /\ k >= pos => TextOf(k) = SourceOf(k)
        /\ stage \in {"map", "glyph", "assign"} => (pc = "panic" /\ AtGlyph)
        /\ (pc \in {"create", "write", "done"} \/ Returned) => pos = Len(ordered_entries) + 1

\* The second of two glyphs panics in its mapping step: the first glyph is complete
\* and the second has left no trace
C15_SecondAbortsMidway ==
    /\ pc = "panic" /\ stage = "map" /\ pos = 2 /\ Len(ordered_entries) = 2
    /\ TextOf(1) = <<57344>> /\ SourceOf(1) # <<57344>>
    /\ TextOf(2) = SourceOf(2)
    /\ Len(gl) = 2 /\ Len(codepoints) = 1

-----------------------------------------------------------------------------
(* Curve normalization: commands before a moveto, the current point. *)

\* C16 as stated: bezpath_with_quadratics handles no LineTo, QuadTo, CurveTo or
\* ClosePath that has no MoveTo before it; it panics when it reaches one.
C16_NothingBeforeMoveTo ==
    q_pc \in {"run", "done"} =>
        \A i \in 1..Len(Handled) :
            Handled[i].kind \in {"LineTo", "QuadTo", "CurveTo", "ClosePath"} =>
                \E j \in 1..(i - 1) : Handled[j].kind = "MoveTo"

\* The current point of a path that has a MoveTo, by the path semantics: the end of
\* the last element, and after a ClosePath the point of the last MoveTo
TrueCurrentPoint(path) ==
    IF path[Len(path)].kind = "ClosePath"
    THEN path[CHOOSE j \in 1..Len(path) :
                /\ path[j].kind = "MoveTo"
                /\ \A k \in (j + 1)..Len(path) : path[k].kind # "MoveTo"].pts[1]
    ELSE path[Len(path)].pts[Len(path[Len(path)].pts)]

\* What the first n elements of a path become: an element that is no cubic is
\* itself, a cubic is the quadratics of the curve from the true current point
RECURSIVE NormalizedPrefix(_, _)
NormalizedPrefix(path, n) ==
    IF n = 0 THEN <<>>
    ELSE IF path[n].kind # "CurveTo" THEN Append(NormalizedPrefix(path, n - 1), path[n])
    ELSE NormalizedPrefix(path, n - 1)
         \o [i \in 1..Len(to_quads(<<TrueCurrentPoint(SubSeq(path, 1, n - 1)),
                                    path[n].pts[1], path[n].pts[2], path[n].pts[3]>>,
                                  TOLERANCE)) |->
               QuadTo(to_quads(<<TrueCurrentPoint(SubSeq(path, 1, n - 1)),
                                path[n].pts[1], path[n].pts[2], path[n].pts[3]>>,
                              TOLERANCE)[i][2],
                      to_quads(<<TrueCurrentPoint(SubSeq(path, 1, n - 1)),
                                path[n].pts[1], path[n].pts[2], path[n].pts[3]>>,
                              TOLERANCE)[i][3])]

\* C17: while bezpath_with_quadratics has not panicked, its output is the handled
\* input with every element that is no cubic kept as it is and in its place, and
\* every cubic replaced by the quadratics of the curve that starts at the true
\* current point; once a MoveTo was handled, the tracked current point is the true
\* one (the end of the last element, the subpath start after a close, the end of
\* the last quadratic after a cubic) and the tracked subpath start is the point of
\* the last MoveTo.
C17_CurrentPointTracked ==
    q_pc \in {"run", "done"} =>
        /\ q_st.out = NormalizedPrefix(Handled, Len(Handled))
        /\ (\E j \in 1..Len(Handled) : Handled[j].kind = "MoveTo") =>
              /\ q_st.current_point_set
              /\ q_st.current_point = TrueCurrentPoint(Handled)
              /\ q_st.subpath_start = TrueCurrentPoint(Append(Handled, ClosePath))
              /\ Handled[Len(Handled)].kind = "CurveTo" =>
                    /\ q_st.out[Len(q_st.out)].kind = "QuadTo"
                    /\ q_st.current_point = q_st.out[Len(q_st.out)].pts[2]

\* A returned path in which a cubic follows a close that came back from (4,2) to
\* the subpath start (0,0): the quadratics are those of the curve from (0,0)
C17_CubicAfterClose ==
    /\ q_pc = "done"
    /\ q_path = <<MoveTo(IPt(0, 0)), LineTo(IPt(4, 2)), ClosePath,
                  CurveTo(IPt(4, 2), IPt(4, 2), IPt(0, 0))>>
    /\ SubSeq(q_st.out, 1, 3) = SubSeq(q_path, 1, 3)
    /\ Len(q_st.out) > 3
    /\ q_st.current_point = IPt(0, 0)

\* What follows the first viewBox= of a text, start-trimmed
AfterViewBoxName(svg) ==
    TrimStart(SubSeq(svg, Find(svg, VIEWBOX_ATTR) + Len(VIEWBOX_ATTR), Len(svg)))

\* The tokens between the quote that opens the attribute value and the next quote
\* of that kind
ViewBoxTokens(svg) ==
    SplitTokens(SubSeq(AfterViewBoxName(svg), 2,
                       Find(Tail(AfterViewBoxName(svg)), <<AfterViewBoxName(svg)[1]>>)))

\* The attribute is there, quoted and terminated, every token of its content is a
\* number, there are four of them at least, and the third and fourth are positive
WellFormedViewBox(svg) ==
    /\ Find(svg, VIEWBOX_ATTR) > 0
    /\ AfterViewBoxName(svg) # <<>>
    /\ AfterViewBoxName(svg)[1] \in {DOUBLE_QUOTE, SINGLE_QUOTE}
    /\ Find(Tail(AfterViewBoxName(svg)), <<AfterViewBoxName(svg)[1]>>) > 0
    /\ Len(ViewBoxTokens(svg)) >= 4
    /\ \A i \in 1..Len(ViewBoxTokens(svg)) : ParseF64(ViewBoxTokens(svg)[i]).ok
    /\ ~RLe(ParseF64(ViewBoxTokens(svg)[3]).val, R0)
    /\ ~RLe(ParseF64(ViewBoxTokens(svg)[4]).val, R0)

\* C18 as stated: extract_view_box never panics; it returns the box (x, y, x+w, y+h)
\* of the four numbers when the attribute is well formed, and none when the
\* attribute is absent, unquoted, unterminated, has fewer than four numbers, has a
\* token that is no number, or has a width or height that is not positive.
C18_MalformedIsNone ==
    (call_fn = "extract_view_box" /\ call_pc # "call") =>
        /\ call_pc = "return"
        /\ ~WellFormedViewBox(call_in.svg) => call_out.value = NoRect
        /\ WellFormedViewBox(call_in.svg) =>
              call_out.value
                 = Rect(ParseF64(ViewBoxTokens(call_in.svg)[1]).val,
                        ParseF64(ViewBoxTokens(call_in.svg)[2]).val,
                        RAdd(ParseF64(ViewBoxTokens(call_in.svg)[1]).val,
                             ParseF64(ViewBoxTokens(call_in.svg)[3]).val),
                        RAdd(ParseF64(ViewBoxTokens(call_in.svg)[2]).val,
                             ParseF64(ViewBoxTokens(call_in.svg)[4]).val))

\* C19 as stated: wrap_svg_if_needed decides on the trimmed text. Without '<' the
\* text is the d attribute of the one path of the default 24x24 document; with '<'
\* but without any of "<svg", "<?xml", "<!DOCTYPE" in it, the text is the inner
\* content of the default document; with such a marker in it, the text is returned
\* as it is.
C19_ThreeCases ==
    CallReturned("wrap_svg_if_needed") =>
        IF ~Contains(Trim(call_in.svg_or_d), LT_SIGN)
        THEN call_out.value
                = SVG_OPEN \o PATH_OPEN \o Trim(call_in.svg_or_d) \o PATH_CLOSE \o SVG_CLOSE
        ELSE IF \A marker \in ROOT_PREFIXES : Find(Trim(call_in.svg_or_d), marker) = 0
        THEN call_out.value \in {SVG_OPEN \o call_in.svg_or_d \o SVG_CLOSE,
                                 SVG_OPEN \o Trim(call_in.svg_or_d) \o SVG_CLOSE}
        ELSE call_out.value \in {call_in.svg_or_d, Trim(call_in.svg_or_d)}

\* The view box given to map_svg_to_em_space is there and both its sides exceed
\* 1e-6
ViewBoxGiven ==
    /\ call_fn = "map_svg_to_em_space"
    /\ call_in.parsed_svg.view_box.some
    /\ RLt(MIN_DIM, RectWidth(call_in.parsed_svg.view_box))
    /\ RLt(MIN_DIM, RectHeight(call_in.parsed_svg.view_box))

\* C20: with a usable view box (x0, y0, w, h), map_svg_to_em_space keeps the
\* elements of the outline and maps every point (x, y) of it to
\* ((x - x0) * s, units_per_em - (y - y0) * s) with s = units_per_em / h, whatever
\* the bounding box of the outline, max_width, max_height and w are; the view box
\* is left as it is, and the only panic is the one of a degenerate bounding box.
C20_ViewBoxMapping ==
    (ViewBoxGiven /\ call_pc # "call") =>
        /\ call_pc = "panic" =>
              /\ call_out.panic = SVG_PANICS.too_small
              /\ \/ RLe(RectWidth(bounding_box(call_in.parsed_svg.outline)), MIN_DIM)
                 \/ RLe(RectHeight(bounding_box(call_in.parsed_svg.outline)), MIN_DIM)
        /\ call_pc = "return" =>
              /\ call_out.value.view_box = call_in.parsed_svg.view_box
              /\ Len(call_out.value.outline) = Len(call_in.parsed_svg.outline)
              /\ \A i \in 1..Len(call_in.parsed_svg.outline) :
                    /\ call_out.value.outline[i].kind = call_in.parsed_svg.outline[i].kind
                    /\ Len(call_out.value.outline[i].pts)
                          = Len(call_in.parsed_svg.outline[i].pts)
                    /\ \A k \in 1..Len(call_in.parsed_svg.outline[i].pts) :
                          /\ call_out.value.outline[i].pts[k].x
                                = RMul(RSub(call_in.parsed_svg.outline[i].pts[k].x,
                                            call_in.parsed_svg.view_box.x0),
                                       RDiv(RInt(call_in.units_per_em),
                                            RectHeight(call_in.parsed_svg.view_box)))
                          /\ call_out.value.outline[i].pts[k].y
                                = RSub(RInt(call_in.units_per_em),
                                       RMul(RSub(call_in.parsed_svg.outline[i].pts[k].y,
                                                 call_in.parsed_svg.view_box.y0),
                                            RDiv(RInt(call_in.units_per_em),
                                                 RectHeight(call_in.parsed_svg.view_box))))

\* An outline tighter than its view box (2, 4, 48, 24), with a target box that is
\* not square: the point (30, 8) goes to (28 * 2048 / 24, 2048 - 4 * 2048 / 24)
C20_OffsetBoxMapped ==
    /\ ViewBoxGiven /\ call_pc = "return"
    /\ call_in.parsed_svg.view_box = Rect(RInt(2), RInt(4), RInt(50), RInt(28))
    /\ call_in.units_per_em = 2048
    /\ call_in.max_width = RInt(500) /\ call_in.max_height = RInt(1000)
    /\ call_in.parsed_svg.outline[2] = QuadTo(IPt(10, 20), IPt(30, 8))
    /\ call_out.value.outline[2].pts[2] = Pt(Rat(7168, 3), Rat(5120, 3))

-----------------------------------------------------------------------------
(* The bounding-box branch of map_svg_to_em_space. *)

\* map_svg_to_em_space is called without a view box whose sides both exceed 1e-6,
\* on an outline whose bounding box has sides above 1e-6
BoxBranchCalled ==
    /\ call_fn = "map_svg_to_em_space" /\ call_pc # "call"
    /\ ~(/\ call_in.parsed_svg.view_box.some
         /\ RLt(MIN_DIM, RectWidth(call_in.parsed_svg.view_box))
         /\ RLt(MIN_DIM, RectHeight(call_in.parsed_svg.view_box)))
    /\ RLt(MIN_DIM, RectWidth(bounding_box(call_in.parsed_svg.outline)))
    /\ RLt(MIN_DIM, RectHeight(bounding_box(call_in.parsed_svg.outline)))

\* min(max_width / bbox_width, max_height / bbox_height) of the call
BoxScale ==
    RMin(RDiv(call_in.max_width, RectWidth(bounding_box(call_in.parsed_svg.outline))),
         RDiv(call_in.max_height, RectHeight(bounding_box(call_in.parsed_svg.outline))))

\* C21: without a usable view box, map_svg_to_em_space panics with "cannot scale to
\* target box" when s = min(max_width / bbox_width, max_height / bbox_height) is at
\* most 1e-6; else it maps every point (x, y) to ((x - bx0) * s, (by1 - y) * s), so
\* that the bounding box of the mapped outline has its minimum corner at (0, 0),
\* lies within [0, max_width] x [0, max_height], reaches max_width or max_height,
\* and has the sides of the original box times s.
C21_BoxFitsTarget ==
    BoxBranchCalled =>
        /\ RLe(BoxScale, MIN_DIM) =>
              call_pc = "panic" /\ call_out.panic = SVG_PANICS.cannot_scale
        /\ RLt(MIN_DIM, BoxScale) =>
              /\ call_pc = "return"
              /\ Len(call_out.value.outline) = Len(call_in.parsed_svg.outline)
              /\ \A i \in 1..Len(call_in.parsed_svg.outline) :
                    /\ call_out.value.outline[i].kind = call_in.parsed_svg.outline[i].kind
                    /\ Len(call_out.value.outline[i].pts)
                          = Len(call_in.parsed_svg.outline[i].pts)
                    /\ \A k \in 1..Len(call_in.parsed_svg.outline[i].pts) :
                          /\ call_out.value.outline[i].pts[k].x
                                = RMul(RSub(call_in.parsed_svg.outline[i].pts[k].x,
                                            bounding_box(call_in.parsed_svg.outline).x0),
                                       BoxScale)
                          /\ call_out.value.outline[i].pts[k].y
                                = RMul(RSub(bounding_box(call_in.parsed_svg.outline).y1,
                                            call_in.parsed_svg.outline[i].pts[k].y),
                                       BoxScale)
              /\ bounding_box(call_out.value.outline).x0 = R0
              /\ bounding_box(call_out.value.outline).y0 = R0
              /\ RLe(bounding_box(call_out.value.outline).x1, call_in.max_width)
              /\ RLe(bounding_box(call_out.value.outline).y1, call_in.max_height)
              /\ \/ bounding_box(call_out.value.outline).x1 = call_in.max_width
                 \/ bounding_box(call_out.value.outline).y1 = call_in.max_height
              /\ RectWidth(bounding_box(call_out.value.outline))
                    = RMul(BoxScale, RectWidth(bounding_box(call_in.parsed_svg.outline)))
              /\ RectHeight(bounding_box(call_out.value.outline))
                    = RMul(BoxScale, RectHeight(bounding_box(call_in.parsed_svg.outline)))

\* The outline with the bounding box (2, 4)-(30, 12), 28 by 8, and no view box is
\* fitted into 500 by 1000: the width reaches 500, the height stays below 1000
C21_WideOutlineFitted ==
    /\ BoxBranchCalled /\ call_pc = "return"
    /\ ~call_in.parsed_svg.view_box.some
    /\ call_in.max_width = RInt(500) /\ call_in.max_height = RInt(1000)
    /\ RectWidth(bounding_box(call_in.parsed_svg.outline)) = RInt(28)
    /\ bounding_box(call_out.value.outline).x1 = RInt(500)
    /\ RLt(bounding_box(call_out.value.outline).y1, RInt(1000))

-----------------------------------------------------------------------------
(* The tables of the font. *)

\* C22 as stated: the sum for the last character index never overflows 16 bits,
\* and in a returned font of N >= 1 glyphs the first character index is the
\* smallest recorded codepoint, U+E000, and the last character index the largest,
\* U+E000 + N - 1.
C22_CharRangeSpansCodepoints ==
    /\ panic_msg # TTF_PANICS.overflow
    /\ (Returned /\ codepoints # <<>>) =>
          /\ bytes[1].us_first_char_index = PUA_FIRST
          /\ \A k \in 1..Len(codepoints) :
                /\ bytes[1].us_first_char_index <= codepoints[k][1]
                /\ codepoints[k][1] <= bytes[1].us_last_char_index
          /\ bytes[1].us_last_char_index = PUA_FIRST + Len(codepoints) - 1
          /\ Len(codepoints) = NumGlyphs(glyphs0)

\* C23: glyph 0 is the empty .notdef from the start of generate_font_bytes on, and
\* a returned font of N input glyphs has N + 1 glyphs in its outline table,
\* maxp.num_glyphs = N + 1, hhea.number_of_h_metrics = N + 1 and N + 1 horizontal
\* metrics, each with advance 1000 and side bearing 0.
C23_GlyphCountsAgree ==
    /\ pc \notin {"call", "off"} => (Len(gl) >= 1 /\ gl[1] = GlyphEmpty)
    /\ Returned =>
          /\ bytes[1].glyf = gl
          /\ Len(bytes[1].glyf) = NumGlyphs(glyphs0) + 1
          /\ bytes[1].glyf[1] = GlyphEmpty
          /\ bytes[1].num_glyphs = NumGlyphs(glyphs0) + 1
          /\ bytes[1].number_of_h_metrics = NumGlyphs(glyphs0) + 1
          /\ Len(bytes[1].long_metrics) = NumGlyphs(glyphs0) + 1
          /\ \A i \in 1..Len(bytes[1].long_metrics) :
                bytes[1].long_metrics[i] = [advance |-> 1000, side_bearing |-> 0]

\* A returned font of two input glyphs: three glyphs, three metrics
C23_ThreeGlyphs ==
    /\ Returned /\ NumGlyphs(glyphs0) = 2
    /\ Len(bytes[1].glyf) = 3 /\ bytes[1].glyf[2].kind # "Empty"
    /\ bytes[1].num_glyphs = 3
    /\ Len(bytes[1].long_metrics) = 3

\* A returned font of no input glyph: the .notdef glyph and its one metric
C23_OnlyNotdef ==
    /\ Returned /\ NumGlyphs(glyphs0) = 0
    /\ bytes[1].glyf = <<GlyphEmpty>>
    /\ bytes[1].num_glyphs = 1 /\ Len(bytes[1].long_metrics) = 1

-----------------------------------------------------------------------------
(* The glyph map after an abort. *)

\* C24: when generate_font_bytes panics at the glyph of canonical position k, the
\* text of every glyph before k is the one character assigned to it, the glyph at
\* k and the glyphs after it hold their source text, the rest of the glyph map is
\* as given, and no font image is returned.
C24_AbortLeavesPrefixRewritten ==
    (pc = "panic" /\ AtGlyph) =>
        /\ \A j \in 1..Len(ordered_entries) :
              /\ j < pos => (TextOf(j) = <<PUA_FIRST + (j - 1)>> /\ TextOf(j) # SourceOf(j))
              /\ j >= pos => TextOf(j) = SourceOf(j)
        /\ \A p \in Places(glyphs0) :
              /\ GlyphAt(glyphs, p).enum_variant = GlyphAt(glyphs0, p).enum_variant
              /\ GlyphAt(glyphs, p).order = GlyphAt(glyphs0, p).order
        /\ Len(ordered_entries) = NumGlyphs(glyphs0)
        /\ ~Returned
        /\ file = file0

\* The second of two glyphs is blank: the build panics at its check with the first
\* glyph's text already replaced
C24_FirstRewrittenSecondBlank ==
    /\ pc = "panic" /\ stage = "check" /\ pos = 2 /\ Len(ordered_entries) = 2
    /\ Len(SourceOf(1)) > 1 /\ TextOf(1) = <<57344>>
    /\ IsBlank(SourceOf(2)) /\ TextOf(2) = SourceOf(2)
    /\ glyphs # glyphs0 /\ ~Returned

-----------------------------------------------------------------------------
(* Icon::build: when it skips, and the sequence of its steps. *)

\* The module file of a build records the hash h: it is readable, and its first
\* line that starts, after trimming, with "/// Icon hash (SHA-256):" goes on with h,
\* up to white space
RecordsHash(module_file, h) ==
    /\ module_file.readable
    /\ \E i \in 1..Len(module_file.lines) :
          /\ StartsWith(Trim(module_file.lines[i]), <<47, 47, 47, 32, 73, 99, 111, 110, 32, 104, 97, 115, 104, 32, 40, 83, 72, 65, 45, 50, 53, 54, 41, 58>>)
          /\ \A j \in 1..(i - 1) : ~StartsWith(Trim(module_file.lines[j]), <<47, 47, 47, 32, 73, 99, 111, 110, 32, 104, 97, 115, 104, 32, 40, 83, 72, 65, 45, 50, 53, 54, 41, 58>>)
          /\ Trim(SubSeq(Trim(module_file.lines[i]), 24 + 1,
                         Len(Trim(module_file.lines[i])))) = h

\* The build is to be skipped: the font file exists and, in Iced mode, the module
\* file records the hash of the manifest
SkipExpected ==
    /\ call_in.font # "absent"
    /\ call_in.gen_type = "Iced" => RecordsHash(call_in.module_file, call_in.hash)

\* C25: Icon::build returns without fetching, synthesising, touching a glyph or
\* writing a file exactly when the font file exists and, in Iced mode, the module
\* file records the hash of the manifest; in Font mode the hash plays no part. In
\* every other case the steps are fetch, then font synthesis, then (Iced only, and
\* only once the font is written) the generation of the bindings, each step after
\* the one before it has ended well.
C25_SkipsWhenUpToDate ==
    (call_fn = "build" /\ call_pc # "call") =>
        /\ SkipExpected =>
              /\ call_pc = "return"
              /\ call_out.value = [steps |-> <<>>, glyphs |-> "manifest",
                                   font |-> call_in.font,
                                   module_file |-> call_in.module_file]
        /\ ~SkipExpected =>
              /\ call_out.value.steps # <<>>
              /\ \A i \in 1..Len(call_out.value.steps) :
                    call_out.value.steps[i] = <<"fetch", "font", "iced">>[i]
              /\ Len(call_out.value.steps) >= 2 => call_out.value.glyphs # "manifest"
              /\ Len(call_out.value.steps) = 3 =>
                    call_in.gen_type = "Iced" /\ call_out.value.font = "image"
              /\ Len(call_out.value.steps) < 3 =>
                    call_out.value.module_file = call_in.module_file
              /\ call_pc = "return" =>
                    /\ call_out.value.font = "image"
                    /\ call_out.value.glyphs = "codepoints"
                    /\ Len(call_out.value.steps)
                          = IF call_in.gen_type = "Iced" THEN 3 ELSE 2
                    /\ call_in.gen_type = "Iced" =>
                          RecordsHash(call_out.value.module_file, call_in.hash)

\* A Font build is skipped although the module file records another hash than
\* that of the manifest
C25_FontSkipsStaleHash ==
    /\ CallReturned("build") /\ call_in.gen_type = "Font" /\ call_in.font = "old"
    /\ RecordsHash(call_in.module_file, <<67, 68>>) /\ call_in.hash = <<65, 66>>
    /\ call_out.value.steps = <<>>

\* An Iced build with the font in place and a stale hash runs all three steps
C25_IcedRebuildsOnStaleHash ==
    /\ CallReturned("build") /\ call_in.gen_type = "Iced" /\ call_in.font = "old"
    /\ RecordsHash(call_in.module_file, <<67, 68>>) /\ call_in.hash = <<65, 66>>
    /\ call_out.value.steps = <<"fetch", "font", "iced">>
    /\ RecordsHash(call_out.value.module_file, <<65, 66>>)

-----------------------------------------------------------------------------
(* glyphs_in_order on glyph maps with tied orders. *)

\* The glyph of a glyph map that an entry (collection, 0-based index) points to
GlyphOfEntry(map, entry) == map[entry.collection][entry.index + 1]

\* C26: glyphs_in_order returns every (collection, index) position of the glyph
\* map exactly once, in non-decreasing order value; of two glyphs with the same
\* order value the one of the smaller collection key comes first, and within a
\* collection the one of the smaller index.
C26_StableCanonicalOrder ==
    CallReturned("glyphs_in_order") =>
        /\ Len(call_out.value) = NumGlyphs(call_in.glyphs)
        /\ \A p \in Places(call_in.glyphs) :
              Cardinality({k \in 1..Len(call_out.value) :
                              call_out.value[k] = [collection |-> p[1], index |-> p[2] - 1]})
                 = 1
        /\ \A k \in 1..Len(call_out.value) : \A l \in (k + 1)..Len(call_out.value) :
              /\ GlyphOfEntry(call_in.glyphs, call_out.value[k]).order
                    <= GlyphOfEntry(call_in.glyphs, call_out.value[l]).order
              /\ GlyphOfEntry(call_in.glyphs, call_out.value[k]).order
                    = GlyphOfEntry(call_in.glyphs, call_out.value[l]).order =>
                    \/ CollectionLess(call_out.value[k].collection,
                                      call_out.value[l].collection)
                    \/ /\ call_out.value[k].collection = call_out.value[l].collection
                       /\ call_out.value[k].index < call_out.value[l].index

\* Three glyphs of one order value, two stored under "mdi" and one under "local":
\* the glyph of "local" comes first, then those of "mdi" by index, so the place in
\* the order, and with it the codepoint, depends on the collection
C26_TieBrokenByCollection ==
    /\ CallReturned("glyphs_in_order")
    /\ Len(call_out.value) = 3
    /\ \A k \in 1..3 : GlyphOfEntry(call_in.glyphs, call_out.value[k]).order
                          = GlyphOfEntry(call_in.glyphs, call_out.value[1]).order
    /\ call_out.value[1].collection.local
    /\ ~call_out.value[2].collection.local /\ call_out.value[2].index = 0
    /\ ~call_out.value[3].collection.local /\ call_out.value[3].index = 1

-----------------------------------------------------------------------------
\* The local assets of a manifest that parse_definition reads: all of them when an
\* assets path is supplied, none otherwise
LocalsRead(in) == IF in.assets_path.some THEN in.local_assets ELSE <<>>

\* The order values of all glyphs of a glyph map
OrdersOf(map) == {map[p[1]][p[2]].order : p \in Places(map)}

\* C27: when parse_definition returns, every glyph has its own order value: the
\* glyph of the i-th entry (counted from 0) of the manifest's glyph list has order
\* i, the glyph of the j-th local asset has order R + j with R the length of the
\* glyph list, so local glyphs come after remote ones; without an assets path no
\* glyph is local; and the order values are exactly 0 .. N-1 for N glyphs.
C27_OrdersAreManifestPositions ==
    CallReturned("parse_definition") =>
        /\ NumGlyphs(call_out.value)
              = Len(call_in.remote_glyphs) + Len(LocalsRead(call_in))
        /\ OrdersOf(call_out.value) = 0..(NumGlyphs(call_out.value) - 1)
        /\ \A i \in 1..Len(call_in.remote_glyphs) :
              \E p \in Places(call_out.value) :
                 /\ ~p[1].local
                 /\ call_out.value[p[1]][p[2]].order = i - 1
                 /\ p[1].name \o <<58, 58>> \o call_out.value[p[1]][p[2]].icon
                       = call_in.remote_glyphs[i][2]
        /\ \A j \in 1..Len(LocalsRead(call_in)) :
              \E p \in Places(call_out.value) :
                 /\ p[1].local
                 /\ call_out.value[p[1]][p[2]].order = Len(call_in.remote_glyphs) + j - 1
                 /\ call_out.value[p[1]][p[2]].icon
                       = Trim(call_in.files[Trim(call_in.local_assets[j][2])].content)
        /\ \A p, q \in Places(call_out.value) :
              ~p[1].local /\ q[1].local =>
                 call_out.value[p[1]][p[2]].order < call_out.value[q[1]][q[2]].order
        /\ ~call_in.assets_path.some => \A p \in Places(call_out.value) : ~p[1].local

\* Two remote glyphs of different collections and two local assets, read from the
\* assets path: the orders are 0, 1 for the remote and 2, 3 for the local glyphs
C27_TwoRemoteTwoLocal ==
    /\ CallReturned("parse_definition")
    /\ call_in.assets_path.some
    /\ Len(call_in.remote_glyphs) = 2 /\ Len(call_in.local_assets) = 2
    /\ Cardinality(DOMAIN call_out.value) = 3
    /\ {call_out.value[p[1]][p[2]].order :
           p \in {q \in Places(call_out.value) : q[1].local}} = {2, 3}

\* Without an assets path the local assets of the manifest are not even read: a
\* manifest whose local asset is missing on disk still yields its remote glyphs
C27_LocalAssetsDropped ==
    /\ CallReturned("parse_definition")
    /\ ~call_in.assets_path.some
    /\ Len(call_in.local_assets) = 2 /\ Len(call_in.remote_glyphs) = 2
    /\ \E j \in 1..2 :
          /\ Trim(call_in.local_assets[j][2]) \in DOMAIN call_in.files
          /\ ~call_in.files[Trim(call_in.local_assets[j][2])].readable
    /\ NumGlyphs(call_out.value) = 2

-----------------------------------------------------------------------------
\* The outline whose elements are those of outline with every point p replaced
\* by F(p)
MappedOutline(outline, F(_)) ==
    [i \in 1..Len(outline) |->
        [kind |-> outline[i].kind,
         pts |-> [k \in 1..Len(outline[i].pts) |-> F(outline[i].pts[k])]]]

\* The outline of the call mapped through its view box (x0, y0, w, h):
\* (x, y) goes to ((x - x0) * s, units_per_em - (y - y0) * s), s = units_per_em / h
ViewBoxImage ==
    LET s == RDiv(RInt(call_in.units_per_em), RectHeight(call_in.parsed_svg.view_box))
        F(p) == Pt(RMul(RSub(p.x, call_in.parsed_svg.view_box.x0), s),
                   RSub(RInt(call_in.units_per_em),
                        RMul(RSub(p.y, call_in.parsed_svg.view_box.y0), s)))
    IN MappedOutline(call_in.parsed_svg.outline, F)

\* The outline of the call fitted by its bounding box: (x, y) goes to
\* ((x - bx0) * s, (by1 - y) * s), s = min(max_width / bw, max_height / bh)
BoundingBoxImage ==
    LET F(p) == Pt(RMul(RSub(p.x, bounding_box(call_in.parsed_svg.outline).x0), BoxScale),
                   RMul(RSub(bounding_box(call_in.parsed_svg.outline).y1, p.y), BoxScale))
    IN MappedOutline(call_in.parsed_svg.outline, F)

\* map_svg_to_em_space has ended on an outline whose bounding box has sides above
\* 1e-6, so that the assert on the bounding box has passed
PastBoxAssert ==
    /\ call_fn = "map_svg_to_em_space" /\ call_pc # "call"
    /\ RLt(MIN_DIM, RectWidth(bounding_box(call_in.parsed_svg.outline)))
    /\ RLt(MIN_DIM, RectHeight(bounding_box(call_in.parsed_svg.outline)))

\* C28: extract_view_box returns the view box of a quoted attribute whose third and
\* fourth number are positive, however small, while map_svg_to_em_space, past the
\* assert on the bounding box, maps through the view box if and only if the view
\* box is there with width and height both above 1e-6; with a side in (0, 1e-6] it
\* fits the outline by its bounding box, as it does without a view box.
C28_ThresholdsDiffer ==
    /\ (/\ CallReturned("extract_view_box")
        /\ Find(call_in.svg, VIEWBOX_ATTR) > 0
        /\ AfterViewBoxName(call_in.svg) # <<>>
        /\ AfterViewBoxName(call_in.svg)[1] \in {DOUBLE_QUOTE, SINGLE_QUOTE}
        /\ Find(Tail(AfterViewBoxName(call_in.svg)), <<AfterViewBoxName(call_in.svg)[1]>>) > 0
        /\ Len(ParsedValues(ViewBoxTokens(call_in.svg))) >= 4
        /\ RLt(R0, ParsedValues(ViewBoxTokens(call_in.svg))[3])
        /\ RLt(R0, ParsedValues(ViewBoxTokens(call_in.svg))[4]))
       => /\ call_out.value.some
          /\ RectWidth(call_out.value) = ParsedValues(ViewBoxTokens(call_in.svg))[3]
          /\ RectHeight(call_out.value) = ParsedValues(ViewBoxTokens(call_in.svg))[4]
    /\ PastBoxAssert =>
          IF /\ call_in.parsed_svg.view_box.some
             /\ RLt(MIN_DIM, RectWidth(call_in.parsed_svg.view_box))
             /\ RLt(MIN_DIM, RectHeight(call_in.parsed_svg.view_box))
          THEN call_pc = "return" /\ call_out.value.outline = ViewBoxImage
          ELSE IF RLt(MIN_DIM, BoxScale)
          THEN call_pc = "return" /\ call_out.value.outline = BoundingBoxImage
          ELSE call_pc = "panic" /\ call_out.panic = SVG_PANICS.cannot_scale

\* The view box that extract_view_box reads from <svg viewBox="0 0 1e-7 24">, 1e-7 wide
\* and 24 high, is given to map_svg_to_em_space with a 24 by 24 outline and the
\* target 500 by 1000: the outline is fitted by its bounding box, which is not
\* what the view box would give
C28_TinyBoxFallsBack ==
    /\ PastBoxAssert /\ call_pc = "return"
    /\ call_in.parsed_svg.view_box
          = extract_view_box(<<60, 115, 118, 103, 32, 118, 105, 101, 119, 66, 111, 120, 61, 34, 48, 32, 48, 32, 49, 101, 45, 55, 32, 50, 52, 34, 62>>)
    /\ call_in.parsed_svg.view_box = Rect(R0, R0, Rat(1, 10000000), RInt(24))
    /\ call_in.max_width = RInt(500) /\ call_in.max_height = RInt(1000)
    /\ RectWidth(bounding_box(call_in.parsed_svg.outline)) = RInt(24)
    /\ call_out.value.outline = BoundingBoxImage
    /\ call_out.value.outline # ViewBoxImage

\* extract_view_box returns a view box whose height is 1e-6 exactly
C28_TinyBoxExtracted ==
    /\ CallReturned("extract_view_box")
    /\ call_out.value = Rect(R0, R0, RInt(24), MIN_DIM)

-----------------------------------------------------------------------------
\* No element handled so far by bezpath_with_quadratics is a MoveTo
NoMoveToYet == \A i \in 1..Len(Handled) : Handled[i].kind # "MoveTo"

\* C29: bezpath_with_quadratics never panics on a ClosePath. While no MoveTo has
\* been handled, the elements handled are ClosePath only, each copied to the
\* output, the current point is (0, 0) and current_point_set is false; a LineTo,
\* QuadTo or CurveTo that comes then, also after such a ClosePath, is not handled
\* but ends the run with the panic of its kind, the output kept as it was.
C29_CloseBeforeMoveToPasses ==
    /\ q_pc = "panic" => q_path[q_i].kind \in {"LineTo", "QuadTo", "CurveTo"}
    /\ (q_pc \in {"run", "done", "panic"} /\ NoMoveToYet) =>
          /\ \A i \in 1..Len(Handled) : Handled[i].kind = "ClosePath"
          /\ q_st.out = Handled
          /\ q_st.current_point = POINT_ZERO
          /\ ~q_st.current_point_set
          /\ q_pc = "panic" =>
                q_st.panic = CASE q_path[q_i].kind = "LineTo" -> SVG_PANICS.line_before_move
                               [] q_path[q_i].kind = "QuadTo" -> SVG_PANICS.quad_before_move
                               [] q_path[q_i].kind = "CurveTo" -> SVG_PANICS.curve_before_move
          /\ (q_pc = "run" /\ q_i <= Len(q_path)
                /\ q_path[q_i].kind \in {"LineTo", "QuadTo", "CurveTo"}) =>
                QuadStep(q_st, q_path[q_i]).panic # <<>>

\* The path ClosePath, CurveTo: the close has been copied to the output, and the
\* cubic after it has ended the run with "CurveTo before MoveTo in input path"
C29_CubicAfterLeadingClose ==
    /\ q_pc = "panic"
    /\ Handled = <<ClosePath>>
    /\ q_path[2].kind = "CurveTo"
    /\ q_st.out = <<ClosePath>>
    /\ q_st.current_point = POINT_ZERO /\ ~q_st.current_point_set
    /\ q_st.panic = SVG_PANICS.curve_before_move
====
